---- MODULE Spec2Model ----
(***************************************************************************)
(* A model of the CNTK text format parser (TextParser.cpp): the byte       *)
(* buffered reader, the numeric scanners, the row/sample grammar, the      *)
(* sequence and chunk loader, the error budget and the chunk cache.        *)
(*                                                                         *)
(* The TextParser object is the record held in the variable parser; its    *)
(* fields keep the names of the C++ members.  Every function of the parser *)
(* is an operator from a parser record to the parser record it leaves      *)
(* behind; a return value is left in the field ret, an out-parameter in    *)
(* the field named after it, and a thrown RuntimeError in the field dead,  *)
(* which every caller passes on untouched, as stack unwinding does.        *)
(***************************************************************************)
EXTENDS Integers, Sequences, FiniteSets, TLC

VARIABLES parser,   \* the TextParser object, with the locals of a running LoadSequence
          cache,    \* m_chunkCache: chunk id -> chunk object
          heap,     \* the TextDataChunk objects GetChunk has returned: object id -> object
          held,     \* the chunk objects the caller holds a ChunkPtr to
          last      \* what the last call of GetChunk did (history)

vars == <<parser, cache, heap, held, last>>

(***************************************************************************)
(* Bounds of the model.                                                    *)
(***************************************************************************)
\* m_buffer holds BUFFER_SIZE bytes; the model's buffer is this small, so that
\* refills and seeks happen inside the few bytes of a model file.
BufferSize == 6
\* The largest max_allowed_errors a parser is configured with.
MaxErrors == 2
\* The largest chunk_cache_size a parser is configured with.
MaxCacheSize == 2
\* The number of chunks GetChunk decodes in one behaviour of the cache level.
MaxLoads == 3
\* The number of GetSequence calls on one chunk object.
MaxRequests == 2
\* The number of LoadSequence calls in one behaviour of the parse level.
MaxSequences == 2
\* The number of chunks GetChunk decodes in one behaviour of the ownership level.
MaxOwnedLoads == 2
\* the largest m_numRetries configured besides the constructor's
MaxRetries == 2
\* the most seeks of the input file that fail
MaxSeekFailures == 3
\* the most chunks loaded when seeks may fail
MaxRetryLoads == 2
MaxGoodReads == 3

(***************************************************************************)
(* The significant bytes (TextReaderConstants.h), as character codes.      *)
(***************************************************************************)
ROW_DELIMITER == 10
COLUMN_DELIMITER == 9
CARRIAGE_RETURN == 13
VALUE_DELIMITER == 32
INDEX_DELIMITER == 58
NAME_PREFIX == 124
ESCAPE_SYMBOL == 35

ChDot == 46
ChMinus == 45
ChPlus == 43
ChZero == 48
ChLowerE == 101
ChUpperE == 69

isdigit(c) == c >= 48 /\ c <= 57
isSign(c) == c = ChMinus \/ c = ChPlus
isE(c) == c = ChLowerE \/ c = ChUpperE

isDelimiter(c) ==
    \/ c = VALUE_DELIMITER \/ c = NAME_PREFIX \/ c = COLUMN_DELIMITER
    \/ c = INDEX_DELIMITER \/ c = ROW_DELIMITER \/ c = CARRIAGE_RETURN

\* F(v), with v evaluated once, before F is applied to it
Let(v, F(_)) == CHOOSE r \in {F(x) : x \in {v}} : TRUE

Min(a, b) == IF a < b THEN a ELSE b
Max(a, b) == IF a > b THEN a ELSE b

(***************************************************************************)
(* size_t arithmetic.  A 64-bit unsigned value is three limbs in base      *)
(* 10^7, most significant first, so that no intermediate result leaves     *)
(* the range of the model checker's integers.                              *)
(***************************************************************************)
Limb == 10 * 1000000
\* 2^64 = 18446744073709551616 = 184467 * 10^14 + 4407370 * 10^7 + 9551616
TwoTo64 == <<184467, 4407370, 9551616>>
U64Zero == <<0, 0, 0>>

U64Less(a, b) ==
    \/ a[1] < b[1]
    \/ a[1] = b[1] /\ a[2] < b[2]
    \/ a[1] = b[1] /\ a[2] = b[2] /\ a[3] < b[3]

\* a - b for a >= b
U64Minus(a, b) ==
    LET l3 == a[3] - b[3]
        b3 == IF l3 < 0 THEN 1 ELSE 0
        l2 == a[2] - b[2] - b3
        b2 == IF l2 < 0 THEN 1 ELSE 0
    IN  <<a[1] - b[1] - b2, l2 + b2 * Limb, l3 + b3 * Limb>>

RECURSIVE U64Wrap(_)
\* the value modulo 2^64
U64Wrap(a0) ==
    Let(a0, LAMBDA a : IF U64Less(a, TwoTo64) THEN a ELSE U64Wrap(U64Minus(a, TwoTo64)))

\* (value * 10 + digit) modulo 2^64, as the size_t expression of TryReadUint64 computes it
U64Times10Plus(value, digit) ==
    LET l3 == value[3] * 10 + digit
        l2 == value[2] * 10 + (l3 \div Limb)
        l1 == value[1] * 10 + (l2 \div Limb)
    IN  U64Wrap(<<l1, l2 % Limb, l3 % Limb>>)

\* a size_t small enough to be a model integer
U64IsSmall(a) == a[1] = 0 /\ a[2] < 100
U64ToInt(a) == a[2] * Limb + a[3]
\* a > n, for a model integer n
U64GreaterThanInt(a, n) == ~U64IsSmall(a) \/ U64ToInt(a) > n
\* a comparison that takes every id for the expected one
U64EqualsIntAny(a, n) == TRUE

U64EqualsInt(a, n) == U64IsSmall(a) /\ U64ToInt(a) = n

(***************************************************************************)
(* ElemType values.  The scanner's doubles are exact rationals <<n, d>>    *)
(* in lowest terms with d > 0 (rounding to ElemType is not modelled).      *)
(***************************************************************************)
RECURSIVE Gcd(_)
\* the greatest common divisor of t[1] >= 0 and t[2] >= 0
Gcd(t0) == Let(t0, LAMBDA t : IF t[2] = 0 THEN t[1] ELSE Gcd(<<t[2], t[1] % t[2]>>))
Abs(a) == IF a < 0 THEN -a ELSE a
RECURSIVE Pow10(_)
Pow10(n) == IF n = 0 THEN 1 ELSE 10 * Pow10(n - 1)

Rational(n, d) == Let(Gcd(<<Abs(n), d>>), LAMBDA g : <<n \div g, d \div g>>)
RealZero == <<0, 1>>
\* coefficient * pow(10.0, exponent)
RealTimesPow10(coefficient, exponent) ==
    IF exponent >= 0
    THEN Rational(coefficient[1] * Pow10(exponent), coefficient[2])
    ELSE Rational(coefficient[1], coefficient[2] * Pow10(-exponent))
RealNegate(r) == <<-r[1], r[2]>>
\* coefficient + number / divider
RealPlusFraction(coefficient, number, divider) ==
    Rational(coefficient[1] * divider + number * coefficient[2], coefficient[2] * divider)

(***************************************************************************)
(* The byte-buffered reader.  m_buffer is the sequence parser.m_buffer;    *)
(* m_bufferStart, m_pos and m_bufferEnd are offsets into it (m_bufferStart *)
(* is 0: it is m_buffer.get() after every refill, and the three pointers   *)
(* are all null before the first).  filePos is the position of m_file.     *)
(* readsToFailure is the number of the calls of fread still to come before *)
(* the one that reads nothing although the file has bytes left (fread      *)
(* returns a short count, here 0, when the read fails); negative: none.    *)
(***************************************************************************)
Throws(p) == p.dead # "none"

\* size_t bytesRead = fread(m_buffer.get(), 1, BUFFER_SIZE, m_file)
BytesRead(p) ==
    IF p.readsToFailure = 0 THEN 0 ELSE Min(BufferSize, Len(p.file) - p.filePos)

\* fread has returned
AfterRead(p) == [p EXCEPT !.readsToFailure = IF @ >= 0 THEN @ - 1 ELSE @]

TryRefillBuffer(p) ==
    IF BytesRead(p) = 0
    THEN [AfterRead(p) EXCEPT !.ret = FALSE]
    ELSE [AfterRead(p) EXCEPT
                   !.m_fileOffsetStart = p.m_fileOffsetEnd,
                   !.m_fileOffsetEnd = p.m_fileOffsetEnd + BytesRead(p),
                   !.m_buffer = SubSeq(p.file, p.filePos + 1, p.filePos + BytesRead(p)),
                   !.m_bufferStart = 0,
                   !.m_pos = 0,
                   !.m_bufferEnd = BytesRead(p),
                   !.filePos = p.filePos + BytesRead(p),
                   !.ret = TRUE]

SeekMessage == "Error seeking to position"

\* seekFailures is the number of the calls of _fseeki64 to come that return an
\* error (the file system); seekThrows counts the seeks that threw (history)
SetFileOffset(p, offset) ==
    IF p.seekFailures > 0
    THEN [p EXCEPT !.dead = SeekMessage, !.seekFailures = @ - 1, !.seekThrows = @ + 1]
    ELSE TryRefillBuffer([p EXCEPT !.filePos = offset,
                                   !.m_fileOffsetStart = offset,
                                   !.m_fileOffsetEnd = offset])

\* CanRead() is true while m_pos < m_bufferEnd or a refill succeeds: the parser it
\* leaves behind
CanRead(p) ==
    IF p.m_pos < p.m_bufferEnd THEN [p EXCEPT !.ret = TRUE] ELSE TryRefillBuffer(p)

\* a loop condition that does not look at bytesToRead
BytesLeftUnbounded(p) == CanRead(p)

\* the loop condition bytesToRead && CanRead(): the parser it leaves behind, ret its value
BytesLeft(p) ==
    IF p.bytesToRead = 0 THEN [p EXCEPT !.ret = FALSE] ELSE CanRead(p)

\* *m_pos
Cur(p) == p.m_buffer[p.m_pos - p.m_bufferStart + 1]

\* ++m_pos; --bytesToRead;  (consumed counts the bytes of the sequence passed: history)
Advance(p) == [p EXCEPT !.m_pos = @ + 1, !.bytesToRead = @ - 1, !.consumed = @ + 1]

\* GetFileOffset()
GetFileOffset(p) == p.m_fileOffsetStart + (p.m_pos - p.m_bufferStart)

(***************************************************************************)
(* The error budget.                                                       *)
(***************************************************************************)
MaxErrorsMessage == "Reached the maximum number of allowed errors while reading the input file"
MalformedMessage == "Malformed input file. Bailing out."
SequenceIdMessage == "Did not find the expected sequence"

\* a budget that is spent one call early
IncrementNumberOfErrorsOrDieEarly(p) ==
    IF p.m_numAllowedErrors <= 1
    THEN [p EXCEPT !.dead = MaxErrorsMessage, !.incCalls = @ + 1, !.incThrows = @ + 1]
    ELSE [p EXCEPT !.m_numAllowedErrors = @ - 1, !.incCalls = @ + 1]

\* incCalls and incThrows count the calls and the calls that threw (history)
IncrementNumberOfErrorsOrDie(p) ==
    IF p.m_numAllowedErrors = 0
    THEN [p EXCEPT !.dead = MaxErrorsMessage, !.incCalls = @ + 1, !.incThrows = @ + 1]
    ELSE [p EXCEPT !.m_numAllowedErrors = @ - 1, !.incCalls = @ + 1]

(***************************************************************************)
(* The numeric scanners.  The locals of a scanner are fields of the parser *)
(* record; a loop body leaves go = TRUE when the loop goes on to           *)
(* ++m_pos; --bytesToRead; and its next test, and go = FALSE when the      *)
(* function returns ret.                                                   *)
(***************************************************************************)
\* the body of the while loop of TryReadUint64, a byte at m_pos
ReadUint64Body(p) ==
    LET c == Cur(p)
        next == U64Times10Plus(p.value, c - ChZero)
    IN  IF ~isdigit(c)
        THEN [p EXCEPT !.ret = IF isDelimiter(c) THEN p.found ELSE FALSE, !.go = FALSE]
        ELSE IF U64Less(next, p.value)
        THEN [p EXCEPT !.value = next, !.found = TRUE, !.ret = FALSE, !.go = FALSE]
        ELSE [p EXCEPT !.value = next, !.found = TRUE, !.go = TRUE]

RECURSIVE ReadUint64Loop(_)
ReadUint64Loop(p0) ==
    Let(BytesLeft(p0), LAMBDA p :
        IF ~p.ret
        THEN p
        ELSE Let(ReadUint64Body(p), LAMBDA q :
                 IF q.go THEN ReadUint64Loop(Advance(q)) ELSE q))

\* leaves the size_t read in the field value
TryReadUint64(p) == ReadUint64Loop([p EXCEPT !.value = U64Zero, !.found = FALSE])

\* the value TryReadRealNumber emits when a byte ends the number
RealValue(p) ==
    CASE p.state = "IntegralPart" -> IF p.negative THEN <<-p.number, 1>> ELSE <<p.number, 1>>
      [] p.state = "Period" -> IF p.negative THEN <<-p.number, 1>> ELSE <<p.number, 1>>
      [] p.state = "FractionalPart" ->
            Let(RealPlusFraction(p.coefficient, p.number, p.divider), LAMBDA c :
                IF p.negative THEN RealNegate(c) ELSE c)
      [] p.state = "Exponent" ->
            RealTimesPow10(p.coefficient, IF p.negative THEN -p.number ELSE p.number)

\* the switch of TryReadRealNumber, a byte at m_pos
ReadRealNumberBody(p) ==
    LET c == Cur(p)
        d == c - ChZero
        fail == [p EXCEPT !.ret = FALSE, !.go = FALSE]
        emit == [p EXCEPT !.value = RealValue(p), !.ret = TRUE, !.go = FALSE]
    IN
    CASE p.state = "Init" ->
            IF isdigit(c)
            THEN [p EXCEPT !.state = "IntegralPart", !.number = d, !.go = TRUE]
            ELSE IF isSign(c)
            THEN [p EXCEPT !.state = "Sign", !.negative = (c = ChMinus), !.go = TRUE]
            ELSE fail
      [] p.state = "Sign" ->
            IF isdigit(c)
            THEN [p EXCEPT !.state = "IntegralPart", !.number = d, !.go = TRUE]
            ELSE fail
      [] p.state = "IntegralPart" ->
            IF isdigit(c)
            THEN [p EXCEPT !.number = p.number * 10 + d, !.go = TRUE]
            ELSE IF c = ChDot
            THEN [p EXCEPT !.state = "Period", !.go = TRUE]
            ELSE IF isE(c)
            THEN [p EXCEPT !.state = "TheLetterE",
                           !.coefficient = IF p.negative THEN <<-p.number, 1>> ELSE <<p.number, 1>>,
                           !.number = 0, !.go = TRUE]
            ELSE emit
      [] p.state = "Period" ->
            IF isdigit(c)
            THEN [p EXCEPT !.state = "FractionalPart", !.coefficient = <<p.number, 1>>,
                           !.number = d, !.divider = 10, !.go = TRUE]
            ELSE emit
      [] p.state = "FractionalPart" ->
            IF isdigit(c)
            THEN [p EXCEPT !.number = p.number * 10 + d, !.divider = p.divider * 10, !.go = TRUE]
            ELSE IF isE(c)
            THEN [p EXCEPT !.state = "TheLetterE",
                           !.coefficient =
                               Let(RealPlusFraction(p.coefficient, p.number, p.divider), LAMBDA f :
                                   IF p.negative THEN RealNegate(f) ELSE f),
                           !.go = TRUE]
            ELSE emit
      [] p.state = "TheLetterE" ->
            IF isdigit(c)
            THEN [p EXCEPT !.state = "Exponent", !.negative = FALSE, !.number = d, !.go = TRUE]
            ELSE IF isSign(c)
            THEN [p EXCEPT !.state = "ExponentSign", !.negative = (c = ChMinus), !.go = TRUE]
            ELSE fail
      [] p.state = "ExponentSign" ->
            IF isdigit(c)
            THEN [p EXCEPT !.state = "Exponent", !.number = d, !.go = TRUE]
            ELSE fail
      [] p.state = "Exponent" ->
            IF isdigit(c)
            THEN [p EXCEPT !.number = p.number * 10 + d, !.go = TRUE]
            ELSE emit

RECURSIVE ReadRealNumberLoop(_)
ReadRealNumberLoop(p0) ==
    Let(BytesLeft(p0), LAMBDA p :
        IF ~p.ret
        THEN p
        ELSE Let(ReadRealNumberBody(p), LAMBDA q :
                 IF q.go THEN ReadRealNumberLoop(Advance(q)) ELSE q))

\* leaves the ElemType read in the field value
TryReadRealNumber(p) ==
    ReadRealNumberLoop([p EXCEPT !.state = "Init", !.coefficient = RealZero, !.number = 0,
                                 !.divider = 0, !.negative = FALSE])

(***************************************************************************)
(* The row/sample grammar.  A stream is [m_alias, m_type,                  *)
(* m_sampleDimension]; stream ids are the positions 1..n in m_streamInfos  *)
(* (0..n-1 in the code).  The buffer of one stream of a sequence is        *)
(* [m_buffer, m_indices, m_nnzCounts, m_totalNnzCount, m_numberOfSamples]. *)
(***************************************************************************)
EmptyStreamBuffer ==
    [m_buffer |-> <<>>, m_indices |-> <<>>, m_nnzCounts |-> <<>>,
     m_totalNnzCount |-> 0, m_numberOfSamples |-> 0]

\* m_maxAliasLength, as the constructor computes it
MaxAliasLength(streams) ==
    LET lens == {Len(streams[i].m_alias) : i \in DOMAIN streams}
    IN  CHOOSE m \in lens : \A l \in lens : l <= m

\* m_aliasToIdMap.find(name): the ids of the streams with that alias (one or none)
AliasIds(p, name) == {i \in DOMAIN p.m_streamInfos : p.m_streamInfos[i].m_alias = name}

\* the body of the while loop of TryGetInputId, a byte at m_pos
GetInputIdBody(p) ==
    LET c == Cur(p) IN
    IF c <= VALUE_DELIMITER \/ c = NAME_PREFIX
    THEN IF Len(p.m_scratch) > 0 /\ AliasIds(p, p.m_scratch) # {}
         THEN [p EXCEPT !.id = CHOOSE i \in AliasIds(p, p.m_scratch) : TRUE,
                        !.ret = TRUE, !.go = FALSE]
         ELSE [p EXCEPT !.ret = FALSE, !.go = FALSE]
    ELSE IF Len(p.m_scratch) < p.m_maxAliasLength
    THEN [p EXCEPT !.m_scratch = Append(@, c), !.go = TRUE]
    ELSE [p EXCEPT !.ret = FALSE, !.go = FALSE]

RECURSIVE GetInputIdLoop(_)
GetInputIdLoop(p0) ==
    Let(BytesLeft(p0), LAMBDA p :
        IF ~p.ret
        THEN p
        ELSE Let(GetInputIdBody(p), LAMBDA q :
                 IF q.go THEN GetInputIdLoop(Advance(q)) ELSE q))

\* leaves the stream id in the field id
TryGetInputId(p) == GetInputIdLoop([p EXCEPT !.m_scratch = <<>>])

\* the stream the sample being read belongs to
SampleSize(p) == p.m_streamInfos[p.id].m_sampleDimension

\* a short dense sample that is filled up with ones
PadZerosOnes(values, n) == values \o [k \in 1..n |-> Rational(1, 1)]

\* a short dense sample that is left short
PadZerosNone(values, n) == values

\* for (; counter < sampleSize; ++counter) values.push_back(0.0f)
PadZeros(values, n) == values \o [k \in 1..n |-> RealZero]

\* a body that does not look at the number of values read
ReadDenseSampleBodyAnySize(p) ==
    LET c == Cur(p) IN
    IF c < VALUE_DELIMITER \/ c = NAME_PREFIX
    THEN [p EXCEPT !.sequence[p.id].m_buffer = PadZeros(@, SampleSize(p) - p.counter),
                   !.counter = Max(p.counter, SampleSize(p)),
                   !.ret = TRUE, !.go = FALSE]
    ELSE IF c = VALUE_DELIMITER
    THEN [p EXCEPT !.go = TRUE, !.advance = TRUE]
    ELSE Let(TryReadRealNumber(p), LAMBDA q :
             IF ~q.ret
             THEN [q EXCEPT !.go = FALSE]
             ELSE [q EXCEPT !.sequence[p.id].m_buffer = Append(@, q.value),
                            !.counter = @ + 1,
                            !.go = TRUE, !.advance = FALSE])

\* the body of the while loop of TryReadDenseSample, a byte at m_pos; a step that
\* goes on with advance = FALSE goes on without ++m_pos; --bytesToRead;
ReadDenseSampleBody(p) ==
    LET c == Cur(p) IN
    IF c < VALUE_DELIMITER \/ c = NAME_PREFIX
    THEN IF p.counter > SampleSize(p)
         THEN [p EXCEPT !.ret = FALSE, !.go = FALSE]
         ELSE [p EXCEPT !.sequence[p.id].m_buffer = PadZeros(@, SampleSize(p) - p.counter),
                        !.counter = Max(p.counter, SampleSize(p)),
                        !.ret = TRUE, !.go = FALSE]
    ELSE IF c = VALUE_DELIMITER
    THEN [p EXCEPT !.go = TRUE, !.advance = TRUE]
    ELSE Let(TryReadRealNumber(p), LAMBDA q :
             IF ~q.ret
             THEN [q EXCEPT !.go = FALSE]
             ELSE [q EXCEPT !.sequence[p.id].m_buffer = Append(@, q.value),
                            !.counter = @ + 1,
                            !.go = TRUE, !.advance = FALSE])

RECURSIVE ReadDenseSampleLoop(_)
\* the while loop of TryReadDenseSample and what follows it
ReadDenseSampleLoop(p0) ==
    Let(BytesLeft(p0), LAMBDA p :
        IF ~p.ret
        THEN [IncrementNumberOfErrorsOrDie(p) EXCEPT !.ret = FALSE]
        ELSE Let(ReadDenseSampleBody(p), LAMBDA q :
                 IF q.go
                 THEN ReadDenseSampleLoop(IF q.advance THEN Advance(q) ELSE q)
                 ELSE q))

\* values is sequence[id].m_buffer, sampleSize the dimension of stream id
TryReadDenseSample(p) == ReadDenseSampleLoop([p EXCEPT !.counter = 0])

\* a test that refuses the index equal to the sample size as well
SparseIndexRefusedFromDimension(index, sampleSize) ==
    U64GreaterThanInt(index, sampleSize) \/ U64EqualsInt(index, sampleSize)

\* if (index > sampleSize): the sparse index is refused
SparseIndexRefused(index, sampleSize) == U64GreaterThanInt(index, sampleSize)

\* TryReadSparseSample from the index read (in value) on: the check of the index,
\* the index delimiter, the value, the two push_backs
ReadSparsePair(p) ==
    IF SparseIndexRefused(p.value, SampleSize(p))
    THEN [p EXCEPT !.ret = FALSE, !.go = FALSE]
    ELSE IF Cur(p) # INDEX_DELIMITER
    THEN [p EXCEPT !.ret = FALSE, !.go = FALSE]
    ELSE Let(TryReadRealNumber(Advance(p)), LAMBDA r :
             IF ~r.ret
             THEN [r EXCEPT !.go = FALSE]
             ELSE [r EXCEPT !.sequence[p.id].m_buffer = Append(@, r.value),
                            !.sequence[p.id].m_indices = Append(@, U64ToInt(p.value)),
                            !.go = TRUE, !.advance = FALSE])

\* the body of the while loop of TryReadSparseSample, a byte at m_pos
ReadSparseSampleBody(p) ==
    LET c == Cur(p) IN
    IF c < VALUE_DELIMITER \/ c = NAME_PREFIX
    THEN [p EXCEPT !.ret = TRUE, !.go = FALSE]
    ELSE IF c = VALUE_DELIMITER
    THEN [p EXCEPT !.go = TRUE, !.advance = TRUE]
    ELSE Let(TryReadUint64(p), LAMBDA q :
             IF ~q.ret THEN [q EXCEPT !.go = FALSE] ELSE ReadSparsePair(q))

RECURSIVE ReadSparseSampleLoop(_)
ReadSparseSampleLoop(p0) ==
    Let(BytesLeft(p0), LAMBDA p :
        IF ~p.ret
        THEN p
        ELSE Let(ReadSparseSampleBody(p), LAMBDA q :
                 IF q.go
                 THEN ReadSparseSampleLoop(IF q.advance THEN Advance(q) ELSE q)
                 ELSE q))

\* values is sequence[id].m_buffer, indices is sequence[id].m_indices
TryReadSparseSample(p) == ReadSparseSampleLoop(p)

\* a clean-up that leaves the vector as it is
ResizeNot(v, size) == v

\* v.resize(size) for a size no larger than v.size()
Resize(v, size) == SubSeq(v, 1, size)

\* the dense branch of TryReadSample, the stream id found
ReadSampleDense(p) ==
    Let(TryReadDenseSample(p), LAMBDA q :
        IF Throws(q)
        THEN q
        ELSE IF ~q.ret
        THEN [IncrementNumberOfErrorsOrDie(
                  [q EXCEPT !.sequence[p.id].m_buffer = Resize(@, Len(p.sequence[p.id].m_buffer))])
              EXCEPT !.ret = FALSE]
        ELSE [q EXCEPT !.sequence[p.id].m_numberOfSamples = @ + 1, !.ret = TRUE])

\* the sparse branch of TryReadSample, the stream id found
ReadSampleSparse(p) ==
    Let(TryReadSparseSample(p), LAMBDA q :
        LET size == Len(p.sequence[p.id].m_buffer)
            count == Len(q.sequence[p.id].m_buffer) - size
        IN  IF ~q.ret
            THEN [IncrementNumberOfErrorsOrDie(
                      [q EXCEPT !.sequence[p.id].m_buffer = Resize(@, size),
                                !.sequence[p.id].m_indices = Resize(@, size)])
                  EXCEPT !.ret = FALSE]
            ELSE [q EXCEPT !.sequence[p.id].m_numberOfSamples = @ + 1,
                           !.sequence[p.id].m_nnzCounts = Append(@, count),
                           !.sequence[p.id].m_totalNnzCount = @ + count,
                           !.ret = TRUE])

\* TryReadSample after the name prefix and the test for the escape symbol
ReadSampleNamed(p) ==
    Let(TryGetInputId(p), LAMBDA r :
        IF ~r.ret
        THEN [IncrementNumberOfErrorsOrDie(r) EXCEPT !.ret = FALSE]
        ELSE IF r.m_streamInfos[r.id].m_type = "dense"
        THEN ReadSampleDense(r)
        ELSE ReadSampleSparse(r))

\* a TryReadSample that knows no escape symbol
TryReadSampleNoEscape(p0) ==
    LET p == [p0 EXCEPT !.sampleCalls = @ + 1] IN
    IF Cur(p0) # NAME_PREFIX
    THEN [IncrementNumberOfErrorsOrDie(p) EXCEPT !.ret = FALSE]
    ELSE ReadSampleNamed(Advance(p))

\* called with a byte at m_pos; sampleCalls counts the calls (history)
TryReadSample(p0) ==
    LET p == [p0 EXCEPT !.sampleCalls = @ + 1] IN
    IF Cur(p0) # NAME_PREFIX
    THEN [IncrementNumberOfErrorsOrDie(p) EXCEPT !.ret = FALSE]
    ELSE Let(BytesLeft(Advance(p)), LAMBDA q :
             IF q.ret /\ Cur(q) = ESCAPE_SYMBOL
             THEN [Advance(q) EXCEPT !.ret = FALSE]
             ELSE ReadSampleNamed(q))

\* a skip that leaves m_pos where it is
SkipToNextInputNot(p0) == p0

RECURSIVE SkipToNextRow(_)
\* a skip that stops at the row delimiter only
SkipToNextRow(p0) ==
    Let(BytesLeft(p0), LAMBDA p :
        IF ~p.ret
        THEN p
        ELSE IF Cur(p) = ROW_DELIMITER
        THEN p
        ELSE SkipToNextRow(Advance(p)))

RECURSIVE SkipToNextInput(_)
SkipToNextInput(p0) ==
    Let(BytesLeft(p0), LAMBDA p :
        IF ~p.ret
        THEN p
        ELSE IF Cur(p) = NAME_PREFIX \/ Cur(p) = ROW_DELIMITER
        THEN p
        ELSE SkipToNextInput(Advance(p)))

RECURSIVE SkipSequenceIds(_)
\* the first while loop of TryReadRow
SkipSequenceIds(p0) ==
    Let(BytesLeft(p0), LAMBDA p :
        IF p.ret /\ isdigit(Cur(p)) THEN SkipSequenceIds(Advance(p)) ELSE p)

(***************************************************************************)
(* TryReadRow and LoadSequence run in steps; pc is the place of the        *)
(* parser in LoadSequence:                                                 *)
(*   "row"     in the second while loop of TryReadRow, numSampleRead set   *)
(*   "rowret"  TryReadRow has returned ret to the for loop of LoadSequence *)
(*   "post"    after the for loop                                          *)
(*   "done"    LoadSequence has returned sequence                          *)
(*   "idle"    not in LoadSequence                                         *)
(* A parser with dead set has thrown and takes no further step.            *)
(***************************************************************************)
\* TryReadRow up to its second loop
TryReadRowBegin(p) ==
    [SkipSequenceIds(p) EXCEPT !.numSampleRead = 0, !.pc = "row"]

\* a TryReadRow that does not count the samples it reads
ReadRowSampleUncounted(p) ==
    Let(TryReadSample(p), LAMBDA q :
        IF Throws(q) \/ q.ret THEN q ELSE SkipToNextInput(q))

\* TryReadRow has a sample to read at m_pos
ReadRowSample(p) ==
    Let(TryReadSample(p), LAMBDA q :
        IF Throws(q)
        THEN q
        ELSE IF q.ret
        THEN [q EXCEPT !.numSampleRead = @ + 1]
        ELSE SkipToNextInput(q))

\* TryReadRow's second loop with an iteration that passes a column or value
\* delimiter without consuming it
TryReadRowBodyStuck(p) ==
    LET c == Cur(p) IN
    IF c = COLUMN_DELIMITER \/ c = VALUE_DELIMITER \/ c = CARRIAGE_RETURN
    THEN p
    ELSE IF c = ROW_DELIMITER
    THEN [Advance(p) EXCEPT !.ret = p.numSampleRead > 0, !.pc = "rowret"]
    ELSE ReadRowSample(p)

\* a TryReadRow that returns true at every row delimiter
TryReadRowBodyAny(p) ==
    LET c == Cur(p) IN
    IF c = COLUMN_DELIMITER \/ c = VALUE_DELIMITER \/ c = CARRIAGE_RETURN
    THEN Advance(p)
    ELSE IF c = ROW_DELIMITER
    THEN [Advance(p) EXCEPT !.ret = TRUE, !.pc = "rowret"]
    ELSE ReadRowSample(p)

\* the body of the second while loop of TryReadRow, a byte at m_pos
TryReadRowBody(p) ==
    LET c == Cur(p) IN
    IF c = COLUMN_DELIMITER \/ c = VALUE_DELIMITER \/ c = CARRIAGE_RETURN
    THEN Advance(p)
    ELSE IF c = ROW_DELIMITER
    THEN [Advance(p) EXCEPT !.ret = p.numSampleRead > 0, !.pc = "rowret"]
    ELSE ReadRowSample(p)

\* a TryReadRow that, out of input, returns whether a sample was read
TryReadRowStepLenient(p0) ==
    Let(BytesLeft(p0), LAMBDA p :
        IF ~p.ret
        THEN [p EXCEPT !.ret = p.numSampleRead > 0, !.pc = "rowret"]
        ELSE TryReadRowBody(p))

\* one test of the second loop's condition and, if it holds, one iteration
TryReadRowStep(p0) ==
    Let(BytesLeft(p0), LAMBDA p :
        IF ~p.ret THEN [p EXCEPT !.pc = "rowret"] ELSE TryReadRowBody(p))

\* the for loop's test: the next row is begun, or the loop is left
NextRow(p) ==
    IF p.i < p.sequenceDsc.m_numberOfSamples
    THEN TryReadRowBegin(p)
    ELSE [p EXCEPT !.pc = "post"]

\* the buffers LoadSequence allocates, one per stream
NewSequenceBuffer(streams) == [j \in DOMAIN streams |-> EmptyStreamBuffer]

\* LoadSequence: the seek, if the sequence starts outside the buffer, and m_pos
PositionAt(p0, fileOffset) ==
    Let(IF fileOffset < p0.m_fileOffsetStart \/ fileOffset > p0.m_fileOffsetEnd
        THEN SetFileOffset(p0, fileOffset)
        ELSE p0,
        LAMBDA p :
        IF Throws(p)
        THEN p
        ELSE [p EXCEPT !.m_pos = p.m_bufferStart + (fileOffset - p.m_fileOffsetStart)])

\* LoadSequence up to the first call of TryReadRow
LoadSequenceBegin(p0, verifyId, sequenceDsc) ==
    Let([PositionAt(p0, sequenceDsc.m_fileOffsetBytes)
            EXCEPT !.bytesToRead = sequenceDsc.m_byteSize,
                   !.consumed = 0,
                   !.sequenceDsc = sequenceDsc,
                   !.sequence = <<>>],
        LAMBDA p1 :
        IF Throws(p1)
        THEN p1
        ELSE
        Let(IF verifyId THEN TryReadUint64(p1) ELSE p1, LAMBDA p :
            IF verifyId /\ (~p.ret \/ ~U64EqualsInt(p.value, sequenceDsc.m_id))
            THEN [p EXCEPT !.dead = SequenceIdMessage]
            ELSE NextRow([p EXCEPT !.sequence = NewSequenceBuffer(p.m_streamInfos),
                                   !.numRowsRead = 0,
                                   !.i = 0])))

\* the rest of the for loop's body, TryReadRow having returned ret
AfterRow(p0) ==
    Let(IF p0.ret
        THEN [p0 EXCEPT !.numRowsRead = @ + 1]
        ELSE IncrementNumberOfErrorsOrDie(p0),
        LAMBDA p :
        IF Throws(p)
        THEN p
        ELSE IF p.bytesToRead = 0 /\ p.numRowsRead < p.sequenceDsc.m_numberOfSamples
        THEN [p EXCEPT !.pc = "post"]
        ELSE NextRow([p EXCEPT !.i = @ + 1]))

\* a check that finds no stream empty
hasEmptyInputsNever(p) == FALSE

hasEmptyInputs(p) ==
    \E j \in DOMAIN p.sequence : p.sequence[j].m_numberOfSamples = 0

\* a check that finds no stream with too many samples
hasDuplicateInputsNever(p) == FALSE

hasDuplicateInputs(p) ==
    \E j \in DOMAIN p.sequence :
        p.sequence[j].m_numberOfSamples > p.sequenceDsc.m_numberOfSamples

\* LoadSequence after its for loop
LoadSequenceEnd(p) ==
    IF hasEmptyInputs(p)
    THEN [p EXCEPT !.dead = MalformedMessage]
    ELSE IF hasDuplicateInputs(p)
    THEN Let(IncrementNumberOfErrorsOrDie(p), LAMBDA q :
             IF Throws(q) THEN q ELSE [q EXCEPT !.pc = "done"])
    ELSE [p EXCEPT !.pc = "done"]

\* one step of a running LoadSequence
LoadSequenceStep(p) ==
    CASE p.pc = "row" -> TryReadRowStep(p)
      [] p.pc = "rowret" -> AfterRow(p)
      [] p.pc = "post" -> LoadSequenceEnd(p)

RECURSIVE LoadSequenceRun(_)
LoadSequenceRun(p0) ==
    Let(p0, LAMBDA p :
        IF Throws(p) \/ p.pc = "done" THEN p ELSE LoadSequenceRun(LoadSequenceStep(p)))

\* the whole call: the sequence returned is the field sequence
LoadSequence(p, verifyId, sequenceDsc) ==
    LoadSequenceRun(LoadSequenceBegin(p, verifyId, sequenceDsc))

(***************************************************************************)
(* Construction, the index and LoadChunk.                                  *)
(***************************************************************************)
\* the locals of the running functions, as they are when none runs
NoLocals ==
    [ret |-> FALSE, go |-> FALSE, advance |-> FALSE,
     value |-> U64Zero, found |-> FALSE,
     state |-> "Init", coefficient |-> RealZero, number |-> 0, divider |-> 0, negative |-> FALSE,
     m_scratch |-> <<>>, id |-> 0, counter |-> 0,
     bytesToRead |-> 0, consumed |-> 0, sequenceDsc |-> <<>>, sequence |-> <<>>,
     numSampleRead |-> 0, numRowsRead |-> 0, i |-> 0, pc |-> "idle", sampleCalls |-> 0]

\* m_numRetries(5)
DefaultNumRetries == 5

\* TextParser(filename, streams), then the setters; file is the content of the file
NewParser(file, streams, maxErrors, cacheSize) ==
    [file |-> file, filePos |-> 0,
     m_streamInfos |-> streams,
     m_maxAliasLength |-> MaxAliasLength(streams),
     m_fileOffsetStart |-> 0, m_fileOffsetEnd |-> 0,
     m_buffer |-> <<>>, m_bufferStart |-> 0, m_bufferEnd |-> 0, m_pos |-> 0,
     m_chunkCacheSize |-> cacheSize,
     m_numAllowedErrors |-> maxErrors,
     m_skipSequenceIds |-> FALSE,
     m_numRetries |-> DefaultNumRetries,
     index |-> <<>>,
     dead |-> "none",
     seekFailures |-> 0, readsToFailure |-> -1,
     maxAllowedErrors |-> maxErrors, incCalls |-> 0, incThrows |-> 0, loads |-> 0,
     attempts |-> 0, seekThrows |-> 0,
     skipConfigured |-> FALSE, hasSequenceIds |-> FALSE]
    @@ NoLocals

\* SetSkipSequenceIds: the configured skip_sequence_ids (skipConfigured keeps it)
SetSkipSequenceIds(p, skip) ==
    [p EXCEPT !.m_skipSequenceIds = skip, !.skipConfigured = skip]

\* Initialize without line 172: the configured flag is kept
InitializeKeepsConfigured(p, index, hasSequenceIds) ==
    [p EXCEPT !.index = index,
              !.hasSequenceIds = hasSequenceIds,
              !.filePos = Len(p.file),
              !.m_fileOffsetStart = Len(p.file),
              !.m_fileOffsetEnd = Len(p.file)]

\* Initialize(): the indexer has read the file to its end and left index and
\* hasSequenceIds; the file offsets are the position it left m_file at
Initialize(p, index, hasSequenceIds) ==
    [p EXCEPT !.index = index,
              !.hasSequenceIds = hasSequenceIds,
              !.m_skipSequenceIds = ~hasSequenceIds,
              !.filePos = Len(p.file),
              !.m_fileOffsetStart = Len(p.file),
              !.m_fileOffsetEnd = Len(p.file)]

\* the locals of the functions that have returned or were left by a throw are gone
ForgetLocals(p) == [f \in DOMAIN p |-> IF f \in DOMAIN NoLocals THEN NoLocals[f] ELSE p[f]]

RECURSIVE LoadChunkFrom(_, _, _)
\* the for loop of LoadChunk from the n-th sequence of the chunk on: the parser it
\* leaves behind and the chunk's m_sequenceMap
LoadChunkFrom(t0, sequences, n) ==
    Let(t0, LAMBDA t :
        IF n > Len(sequences) \/ Throws(t.parser)
        THEN t
        ELSE Let(LoadSequence(t.parser, ~t.parser.m_skipSequenceIds, sequences[n]), LAMBDA q :
                 LoadChunkFrom(
                     [parser |-> q,
                      m_sequenceMap |->
                          IF Throws(q) \/ sequences[n].m_id \in DOMAIN t.m_sequenceMap
                          THEN t.m_sequenceMap
                          ELSE (sequences[n].m_id :> q.sequence) @@ t.m_sequenceMap],
                     sequences, n + 1)))

EmptyMap == [x \in {} |-> 0]

LoadChunk(p, descriptor) ==
    LoadChunkFrom([parser |-> p, m_sequenceMap |-> EmptyMap], descriptor.m_sequences, 1)

\* every failure is taken for a failure of the file system
IsTransientAny(message) == TRUE

\* the failures attempt takes for transient: those of the file system
IsTransient(message) == message = SeekMessage

RECURSIVE AttemptLoadChunkFrom(_, _, _)
\* attempt(m_numRetries, ...) from its attempt-th run of LoadChunk on: the body is
\* run again after a transient failure, while fewer than m_numRetries runs were
\* made; any other failure, and the last transient one, leave attempt as thrown.
\* attempts counts the runs of LoadChunk (history)
AttemptLoadChunkFrom(p, descriptor, attempt) ==
    Let(LoadChunk([p EXCEPT !.attempts = @ + 1], descriptor), LAMBDA load :
        IF /\ Throws(load.parser)
           /\ IsTransient(load.parser.dead)
           /\ attempt < p.m_numRetries
        THEN AttemptLoadChunkFrom([ForgetLocals(load.parser) EXCEPT !.dead = "none"],
                                  descriptor, attempt + 1)
        ELSE load)

\* attempt(m_numRetries, ...) around LoadChunk
AttemptLoadChunk(p, descriptor) == AttemptLoadChunkFrom(p, descriptor, 1)

(***************************************************************************)
(* The chunk cache.  A TextDataChunk object is                             *)
(*   [m_id, m_sequenceMap, m_sequenceRequestCount,                         *)
(*    useCount  the use count of the shared_ptr control block,             *)
(*    handles   the SequenceData handles emitted and not yet dropped       *)
(*              (history),                                                 *)
(*    freed     the object has been destroyed]                             *)
(* A size_t of the eviction loop is a model integer; the negative integer  *)
(* n stands for the size_t 2^64 + n.                                       *)
(***************************************************************************)
SIZE_MAX == -1

\* a < b for the size_t a and b
SizeTLess(a, b) == IF (a < 0) = (b < 0) THEN a < b ELSE b < 0

\* make_shared<TextDataChunk>(descriptor, this), then LoadChunk; the one owner is
\* the local textChunk of GetChunk
NewChunk(descriptor, sequenceMap) ==
    [m_id |-> descriptor.m_id, m_sequenceMap |-> sequenceMap, m_sequenceRequestCount |-> 0,
     useCount |-> 1, handles |-> 0, freed |-> FALSE]

\* the object after ~TextDataChunk
Destroyed(chunk) ==
    [chunk EXCEPT !.m_sequenceMap = EmptyMap, !.m_sequenceRequestCount = 0, !.freed = TRUE]

\* n more shared_ptr own object o
AddOwners(h, o, n) == [h EXCEPT ![o].useCount = @ + n]

\* a shared_ptr that owns object o is destroyed or reset
DropOwner(h, o) ==
    IF h[o].useCount = 1
    THEN [h EXCEPT ![o] = Destroyed([h[o] EXCEPT !.useCount = 0])]
    ELSE [h EXCEPT ![o].useCount = @ - 1]

\* size_t numSequencesLeft = chunk.m_sequenceMap.size() - numSequencesUsed
NumSequencesLeft(chunk) ==
    Cardinality(DOMAIN chunk.m_sequenceMap) - chunk.m_sequenceRequestCount

RECURSIVE SortedSeq(_)
\* the keys of m_chunkCache in the order the loop visits them
SortedSeq(S) ==
    IF S = {}
    THEN <<>>
    ELSE LET m == CHOOSE x \in S : \A y \in S : x <= y IN <<m>> \o SortedSeq(S \ {m})

RECURSIVE CandidateLoop(_, _, _, _, _, _)
\* for (const auto& it : m_chunkCache), from the n-th key on
CandidateLoop(c, h, keys, n, candidateId, minNumSequencesLeft) ==
    IF n > Len(keys)
    THEN candidateId
    ELSE IF SizeTLess(NumSequencesLeft(h[c[keys[n]]]), minNumSequencesLeft)
    THEN CandidateLoop(c, h, keys, n + 1, keys[n], NumSequencesLeft(h[c[keys[n]]]))
    ELSE CandidateLoop(c, h, keys, n + 1, candidateId, minNumSequencesLeft)

\* candidateId after the loop
EvictionCandidate(c, h) == CandidateLoop(c, h, SortedSeq(DOMAIN c), 1, SIZE_MAX, SIZE_MAX)

\* m_chunkCache.erase(key)
Erase(c, key) == [k \in DOMAIN c \ {key} |-> c[k]]

\* the cache's shared_ptr to the chunk erased is destroyed
EraseOwner(c, h, key) == IF key \in DOMAIN c THEN DropOwner(h, c[key]) ELSE h

\* if (m_chunkCacheSize > 0 && m_chunkCache.size() == m_chunkCacheSize)
MustEvict(c, cacheSize) == cacheSize > 0 /\ Cardinality(DOMAIN c) = cacheSize

\* an insertion whatever the cache size
MustInsertAlways(cacheSize) == TRUE

\* if (m_chunkCacheSize > 0)
MustInsert(cacheSize) == cacheSize > 0

\* a return that leaves the chunk out of the cache
InsertChunkNot(r, cacheSize, chunkId, o) == r

\* m_chunkCache[chunkId] = textChunk; chunk = textChunk; return chunk: of the owners
\* textChunk, chunk and the cache's entry, textChunk goes at the return
InsertChunk(r, cacheSize, chunkId, o) ==
    IF MustInsert(cacheSize)
    THEN [r EXCEPT !.cache = (chunkId :> o) @@ r.cache, !.heap = AddOwners(r.heap, o, 1)]
    ELSE r

\* GetChunk from the eviction on, the chunk loaded being object o of h
EvictAndInsert(c, h, cacheSize, chunkId, o) ==
    IF MustEvict(c, cacheSize)
    THEN Let(EvictionCandidate(c, h), LAMBDA candidateId :
             InsertChunk([cache |-> Erase(c, candidateId),
                          heap |-> EraseOwner(c, h, candidateId),
                          full |-> TRUE, candidateId |-> candidateId],
                         cacheSize, chunkId, o))
    ELSE InsertChunk([cache |-> c, heap |-> h, full |-> FALSE, candidateId |-> SIZE_MAX],
                     cacheSize, chunkId, o)

\* an else branch that makes room in the cache before it loads the chunk
GetChunkElseEvictFirst(p, c, h, chunkId) ==
    Let(AttemptLoadChunk([p EXCEPT !.loads = @ + 1], p.index[chunkId + 1]), LAMBDA load :
        IF Throws(load.parser)
        THEN [cache |-> IF MustEvict(c, p.m_chunkCacheSize)
                        THEN Erase(c, EvictionCandidate(c, h)) ELSE c,
              heap |-> IF MustEvict(c, p.m_chunkCacheSize)
                       THEN EraseOwner(c, h, EvictionCandidate(c, h)) ELSE h,
              full |-> FALSE, candidateId |-> SIZE_MAX,
              parser |-> load.parser, thrown |-> TRUE, chunk |-> 0]
        ELSE Let(p.loads + 1, LAMBDA o :
                 EvictAndInsert(c, (o :> NewChunk(p.index[chunkId + 1], load.m_sequenceMap)) @@ h,
                                p.m_chunkCacheSize, chunkId, o)
                 @@ [parser |-> load.parser, thrown |-> FALSE, chunk |-> o]))

\* an else branch that decodes every chunk with the whole budget
GetChunkElseFreshBudget(p, c, h, chunkId) ==
    Let(AttemptLoadChunk([p EXCEPT !.loads = @ + 1, !.m_numAllowedErrors = p.maxAllowedErrors],
                         p.index[chunkId + 1]), LAMBDA load :
        IF Throws(load.parser)
        THEN [cache |-> c, heap |-> h, full |-> FALSE, candidateId |-> SIZE_MAX,
              parser |-> load.parser, thrown |-> TRUE, chunk |-> 0]
        ELSE Let(p.loads + 1, LAMBDA o :
                 EvictAndInsert(c, (o :> NewChunk(p.index[chunkId + 1], load.m_sequenceMap)) @@ h,
                                p.m_chunkCacheSize, chunkId, o)
                 @@ [parser |-> load.parser, thrown |-> FALSE, chunk |-> o]))

\* the else branch of GetChunk, for the cache c and the heap h: what it leaves
\* behind; thrown tells that LoadChunk threw and GetChunk was left by the exception
GetChunkElse(p, c, h, chunkId) ==
    Let(AttemptLoadChunk([p EXCEPT !.loads = @ + 1], p.index[chunkId + 1]), LAMBDA load :
        IF Throws(load.parser)
        THEN [cache |-> c, heap |-> h, full |-> FALSE, candidateId |-> SIZE_MAX,
              parser |-> load.parser, thrown |-> TRUE, chunk |-> 0]
        ELSE Let(p.loads + 1, LAMBDA o :
                 EvictAndInsert(c, (o :> NewChunk(p.index[chunkId + 1], load.m_sequenceMap)) @@ h,
                                p.m_chunkCacheSize, chunkId, o)
                 @@ [parser |-> load.parser, thrown |-> FALSE, chunk |-> o]))

(***************************************************************************)
(* The index.  An input is a sequence of [m_chunkId, m_id, text,           *)
(* m_numberOfSamples], one per sequence of the file in file order: the     *)
(* bytes of the sequence, the chunk the indexer put it in, its id and the  *)
(* number of its rows.                                                     *)
(***************************************************************************)
RECURSIVE FileOf(_)
\* the content of the file
FileOf(seqs) == IF seqs = <<>> THEN <<>> ELSE Head(seqs).text \o FileOf(Tail(seqs))

\* the descriptor of the n-th sequence
SequenceDescriptor(seqs, n) ==
    [m_id |-> seqs[n].m_id,
     m_chunkId |-> seqs[n].m_chunkId,
     m_fileOffsetBytes |-> Len(FileOf(SubSeq(seqs, 1, n - 1))),
     m_byteSize |-> Len(seqs[n].text),
     m_numberOfSamples |-> seqs[n].m_numberOfSamples]

DescriptorsOf(seqs) == [n \in DOMAIN seqs |-> SequenceDescriptor(seqs, n)]

\* GetIndex(): the chunk descriptors, chunk k at position k + 1
IndexOf(seqs) ==
    LET chunkIds == {seqs[n].m_chunkId : n \in DOMAIN seqs}
    IN  [k \in 1..Cardinality(chunkIds) |->
            [m_id |-> k - 1,
             m_sequences |-> SelectSeq(DescriptorsOf(seqs), LAMBDA d : d.m_chunkId = k - 1)]]

\* the parser the reader makes: constructed, configured and initialized
ParserOf(seqs, streams, hasSequenceIds, maxErrors, cacheSize) ==
    Initialize(NewParser(FileOf(seqs), streams, maxErrors, cacheSize), IndexOf(seqs), hasSequenceIds)

(***************************************************************************)
(* The calls of the cache level: GetChunk, GetSequence on a chunk held,    *)
(* and the caller letting go of a chunk or of a sequence-data handle.      *)
(***************************************************************************)
ChunkIds == {k - 1 : k \in DOMAIN parser.index}

AssertMessage == "Assertion failed: candidateId != SIZE_MAX"

NoCall ==
    [op |-> "none", chunkId |-> 0, how |-> "none", outcome |-> "none", chunk |-> 0,
     full |-> FALSE, candidateId |-> SIZE_MAX]

\* the process has not been aborted
Running == last.outcome # AssertMessage

\* a hit that counts a request of the chunk it returns
TakeChunkCounted(h, o) ==
    [(IF o \in held THEN h ELSE AddOwners(h, o, 1))
        EXCEPT ![o].m_sequenceRequestCount = @ + 1]

\* the caller takes the ChunkPtr returned: one more owner, unless it replaces a
\* ChunkPtr to the same object
TakeChunk(h, o) == IF o \in held THEN h ELSE AddOwners(h, o, 1)

\* a lookup that finds nothing
CacheFindNothing(c, chunkId) == FALSE

\* m_chunkCache.find(chunkId) != m_chunkCache.end()
CacheFind(c, chunkId) == chunkId \in DOMAIN c

\* chunk = it->second
GetChunkHit(chunkId) ==
    /\ CacheFind(cache, chunkId)
    /\ heap' = TakeChunk(heap, cache[chunkId])
    /\ held' = held \cup {cache[chunkId]}
    /\ last' = [NoCall EXCEPT !.op = "GetChunk", !.chunkId = chunkId, !.how = "hit",
                              !.outcome = "ok", !.chunk = cache[chunkId]]
    /\ UNCHANGED <<parser, cache>>

\* the else branch has thrown: its locals are gone, the exception is the caller's
GetChunkThrown(chunkId, r) ==
    /\ r.thrown
    /\ parser' = [ForgetLocals(r.parser) EXCEPT !.dead = "none"]
    /\ last' = [NoCall EXCEPT !.op = "GetChunk", !.chunkId = chunkId, !.how = "miss",
                              !.outcome = r.parser.dead]
    /\ cache' = r.cache
    /\ heap' = r.heap
    /\ UNCHANGED held

\* assert(candidateId != SIZE_MAX) fails in a build with assertions
GetChunkAborted(chunkId, r) ==
    /\ ~r.thrown
    /\ r.full /\ r.candidateId = SIZE_MAX
    /\ parser' = ForgetLocals(r.parser)
    /\ last' = [NoCall EXCEPT !.op = "GetChunk", !.chunkId = chunkId, !.how = "miss",
                              !.outcome = AssertMessage, !.full = TRUE]
    /\ UNCHANGED <<cache, heap, held>>

\* the else branch returns chunk
GetChunkReturned(chunkId, r) ==
    /\ ~r.thrown
    /\ parser' = ForgetLocals(r.parser)
    /\ cache' = r.cache
    /\ heap' = r.heap
    /\ held' = held \cup {r.chunk}
    /\ last' = [NoCall EXCEPT !.op = "GetChunk", !.chunkId = chunkId, !.how = "miss",
                              !.outcome = "ok", !.chunk = r.chunk,
                              !.full = r.full, !.candidateId = r.candidateId]

GetChunkMiss(chunkId) ==
    /\ ~CacheFind(cache, chunkId)
    /\ parser.loads < MaxLoads
    /\ \E r \in {GetChunkElse(parser, cache, heap, chunkId)} :
          \/ GetChunkThrown(chunkId, r)
          \/ GetChunkAborted(chunkId, r)
          \/ GetChunkReturned(chunkId, r)

GetChunk(chunkId) ==
    /\ Running
    /\ GetChunkHit(chunkId) \/ GetChunkMiss(chunkId)

\* handles that do not own the chunk
ChunkGetSequenceUnowned(h, o, numStreams) ==
    [h EXCEPT ![o].m_sequenceRequestCount = @ + 1, ![o].handles = @ + numStreams]

\* a GetSequence that counts every handle it emits
ChunkGetSequencePerHandle(h, o, numStreams) ==
    [AddOwners(h, o, numStreams) EXCEPT ![o].m_sequenceRequestCount = @ + numStreams,
                                        ![o].handles = @ + numStreams]

\* TextDataChunk::GetSequence on object o: the request is counted and one handle
\* per stream is emitted, each an owner of the chunk
ChunkGetSequence(h, o, numStreams) ==
    [AddOwners(h, o, numStreams) EXCEPT ![o].m_sequenceRequestCount = @ + 1,
                                        ![o].handles = @ + numStreams]

GetSequence(o, sequenceId) ==
    /\ Running
    /\ o \in held
    /\ sequenceId \in DOMAIN heap[o].m_sequenceMap
    /\ heap[o].m_sequenceRequestCount < MaxRequests
    /\ heap' = ChunkGetSequence(heap, o, Len(parser.m_streamInfos))
    /\ last' = NoCall
    /\ UNCHANGED <<parser, cache, held>>

\* the caller lets go of its ChunkPtr to object o
DropChunk(o) ==
    /\ Running
    /\ o \in held
    /\ held' = held \ {o}
    /\ heap' = DropOwner(heap, o)
    /\ last' = NoCall
    /\ UNCHANGED <<parser, cache>>

\* the caller lets go of one sequence-data handle of object o
DropHandle(o) ==
    /\ Running
    /\ o \in DOMAIN heap
    /\ heap[o].handles > 0
    /\ heap' = [DropOwner(heap, o) EXCEPT ![o].handles = @ - 1]
    /\ last' = NoCall
    /\ UNCHANGED <<parser, cache, held>>

(***************************************************************************)
(* The file of the cache level: four chunks, one stream x (dense, of       *)
(* dimension 1), no sequence ids.                                          *)
(*   chunk 0:  |x 1    and   |x 2                                          *)
(*   chunk 1:  |x 3                                                        *)
(*   chunk 2:  |x 4|z  (the input z is not known: one error)               *)
(*   chunk 3:  |z 5    (two errors, and no sample of x: malformed)         *)
(***************************************************************************)
CacheStreams ==
    <<[m_alias |-> <<120>>, m_type |-> "dense", m_sampleDimension |-> 1]>>

CacheFile ==
    <<[m_chunkId |-> 0, m_id |-> 0, m_numberOfSamples |-> 1,
       text |-> <<124, 120, 32, 49, 10>>],
      [m_chunkId |-> 0, m_id |-> 1, m_numberOfSamples |-> 1,
       text |-> <<124, 120, 32, 50, 10>>],
      [m_chunkId |-> 1, m_id |-> 2, m_numberOfSamples |-> 1,
       text |-> <<124, 120, 32, 51, 10>>],
      [m_chunkId |-> 2, m_id |-> 3, m_numberOfSamples |-> 1,
       text |-> <<124, 120, 32, 52, 124, 122, 10>>],
      [m_chunkId |-> 3, m_id |-> 4, m_numberOfSamples |-> 1,
       text |-> <<124, 122, 32, 53, 10>>]>>

Init ==
    /\ \E maxErrors \in 0..MaxErrors, cacheSize \in 0..MaxCacheSize :
          parser = ParserOf(CacheFile, CacheStreams, FALSE, maxErrors, cacheSize)
    /\ cache = EmptyMap
    /\ heap = EmptyMap
    /\ held = {}
    /\ last = NoCall

\* the cache level: a caller that gets chunks and sequences and keeps what it gets
Next ==
    \/ \E chunkId \in ChunkIds : GetChunk(chunkId)
    \/ \E o \in held : \E sequenceId \in DOMAIN heap[o].m_sequenceMap : GetSequence(o, sequenceId)

Spec == Init /\ [][Next]_vars

(***************************************************************************)
(* The retry level: the file system fails some of the seeks, and the       *)
(* reader is configured with some m_numRetries.  The cache holds one       *)
(* chunk.                                                                  *)
(***************************************************************************)
GetChunkRetried(chunkId) ==
    /\ CacheFind(cache, chunkId) \/ parser.loads < MaxRetryLoads
    /\ GetChunk(chunkId)

RetryInit ==
    /\ \E maxErrors \in 0..MaxErrors,
          numRetries \in (0..MaxRetries) \cup {DefaultNumRetries},
          seekFailures \in 0..MaxSeekFailures :
          parser = [ParserOf(CacheFile, CacheStreams, FALSE, maxErrors, 1)
                       EXCEPT !.m_numRetries = numRetries, !.seekFailures = seekFailures]
    /\ cache = EmptyMap
    /\ heap = EmptyMap
    /\ held = {}
    /\ last = NoCall

RetryNext == \E chunkId \in ChunkIds : GetChunkRetried(chunkId)

RetrySpec == RetryInit /\ [][RetryNext]_vars

(***************************************************************************)
(* The ownership level: a caller that also lets go of the chunks and the   *)
(* handles it got.  The error budget plays no part in it and is the        *)
(* largest.                                                                *)
(***************************************************************************)
GetChunkOwned(chunkId) ==
    /\ CacheFind(cache, chunkId) \/ parser.loads < MaxOwnedLoads
    /\ GetChunk(chunkId)

OwnerInit ==
    /\ \E cacheSize \in 0..MaxCacheSize :
          parser = ParserOf(CacheFile, CacheStreams, FALSE, MaxErrors, cacheSize)
    /\ cache = EmptyMap
    /\ heap = EmptyMap
    /\ held = {}
    /\ last = NoCall

OwnerNext ==
    \/ \E chunkId \in ChunkIds : GetChunkOwned(chunkId)
    \/ \E o \in held : \E sequenceId \in DOMAIN heap[o].m_sequenceMap : GetSequence(o, sequenceId)
    \/ \E o \in held : DropChunk(o)
    \/ \E o \in DOMAIN heap : DropHandle(o)

OwnerSpec == OwnerInit /\ [][OwnerNext]_vars

(***************************************************************************)
(* The parse level: LoadChunk of a chunk of one sequence, LoadSequence     *)
(* running in steps.                                                       *)
(***************************************************************************)
ParseStreams ==
    <<[m_alias |-> <<120>>, m_type |-> "dense", m_sampleDimension |-> 2],
      [m_alias |-> <<121>>, m_type |-> "sparse", m_sampleDimension |-> 3]>>

(***************************************************************************)
(* The files of the parse level, one sequence per chunk; the streams are   *)
(* x (dense, of dimension 2) and y (sparse, of dimension 3).               *)
(*                                                                         *)
(* ParseFilePlain has no sequence ids, every row is a sequence:            *)
(*   chunk 0:  |x 1 2|y 0:1 2:5\n                                          *)
(*   chunk 1:  |x 1|y\n                                                    *)
(*   chunk 2:  |x 1 2|x 3 4|y\n                                            *)
(*   chunk 3:  |x 1 2|y 3:1\n                                              *)
(*   chunk 4:  |x 1 2|y 4:1|y 1:1\n                                        *)
(*   chunk 5:  |x 1 2|y 0:1 1:|y 2:1\n                                     *)
(*   chunk 6:  |x 1 2 3|x 1 2|y\n                                          *)
(*   chunk 7:  |y 0:1|x 1 2                                                *)
(***************************************************************************)
ParseFilePlain ==
    <<[m_chunkId |-> 0, m_id |-> 0, m_numberOfSamples |-> 1,
       text |-> <<124, 120, 32, 49, 32, 50, 124, 121, 32, 48, 58, 49, 32, 50, 58, 53, 10>>],
      [m_chunkId |-> 1, m_id |-> 1, m_numberOfSamples |-> 1,
       text |-> <<124, 120, 32, 49, 124, 121, 10>>],
      [m_chunkId |-> 2, m_id |-> 2, m_numberOfSamples |-> 1,
       text |-> <<124, 120, 32, 49, 32, 50, 124, 120, 32, 51, 32, 52, 124, 121, 10>>],
      [m_chunkId |-> 3, m_id |-> 3, m_numberOfSamples |-> 1,
       text |-> <<124, 120, 32, 49, 32, 50, 124, 121, 32, 51, 58, 49, 10>>],
      [m_chunkId |-> 4, m_id |-> 4, m_numberOfSamples |-> 1,
       text |-> <<124, 120, 32, 49, 32, 50, 124, 121, 32, 52, 58, 49, 124, 121, 32, 49, 58, 49, 10>>],
      [m_chunkId |-> 5, m_id |-> 5, m_numberOfSamples |-> 1,
       text |-> <<124, 120, 32, 49, 32, 50, 124, 121, 32, 48, 58, 49, 32, 49, 58, 124, 121, 32, 50,
               58, 49, 10>>],
      [m_chunkId |-> 6, m_id |-> 6, m_numberOfSamples |-> 1,
       text |-> <<124, 120, 32, 49, 32, 50, 32, 51, 124, 120, 32, 49, 32, 50, 124, 121, 10>>],
      [m_chunkId |-> 7, m_id |-> 7, m_numberOfSamples |-> 1,
       text |-> <<124, 121, 32, 48, 58, 49, 124, 120, 32, 49, 32, 50>>]>>

(***************************************************************************)
(* ParseFileIds has sequence ids; the sequences of chunks 0 and 2 have two *)
(* rows each:                                                              *)
(*   chunk 0:  0 |x 1 2|y 0:1\n0 |y 1:1\n                                  *)
(*   chunk 1:  1 |x 1 2|y\n                                                *)
(*   chunk 2:  2 |x 1|y\n2 |x 3 4|x 5 6|y\n                                *)
(***************************************************************************)
ParseFileIds ==
    <<[m_chunkId |-> 0, m_id |-> 0, m_numberOfSamples |-> 2,
       text |-> <<48, 32, 124, 120, 32, 49, 32, 50, 124, 121, 32, 48, 58, 49, 10, 48, 32, 124, 121,
               32, 49, 58, 49, 10>>],
      [m_chunkId |-> 1, m_id |-> 1, m_numberOfSamples |-> 1,
       text |-> <<49, 32, 124, 120, 32, 49, 32, 50, 124, 121, 10>>],
      [m_chunkId |-> 2, m_id |-> 2, m_numberOfSamples |-> 2,
       text |-> <<50, 32, 124, 120, 32, 49, 124, 121, 10, 50, 32, 124, 120, 32, 51, 32, 52, 124,
               120, 32, 53, 32, 54, 124, 121, 10>>]>>

(***************************************************************************)
(* The edge cases: one stream x, dense, of dimension 1.                    *)
(*                                                                         *)
(* EdgeFilePlain has no sequence ids, every row is a sequence:             *)
(*   chunk 0:  |x 1 |x 2\n          the stream twice in a row              *)
(*   chunk 1:  |x 1                 no row delimiter                       *)
(*   chunk 2:  \n                   a blank line                           *)
(*   chunk 3:  |#a|x 1\n            an escape sequence, then a sample      *)
(*   chunk 4:  |#a\n                an escape sequence only                *)
(*   chunk 5:  |z 1\n               a sample of an unknown stream only     *)
(*   chunk 6:  |x 1_                a space, and no row delimiter          *)
(*   chunk 7:  |x 1<TAB>            a column delimiter, and no row         *)
(*                                  delimiter                              *)
(***************************************************************************)
EdgeStreams ==
    <<[m_alias |-> <<120>>, m_type |-> "dense", m_sampleDimension |-> 1]>>

EdgeFilePlain ==
    <<[m_chunkId |-> 0, m_id |-> 0, m_numberOfSamples |-> 1,
       text |-> <<124, 120, 32, 49, 32, 124, 120, 32, 50, 10>>],
      [m_chunkId |-> 1, m_id |-> 1, m_numberOfSamples |-> 1,
       text |-> <<124, 120, 32, 49>>],
      [m_chunkId |-> 2, m_id |-> 2, m_numberOfSamples |-> 1,
       text |-> <<10>>],
      [m_chunkId |-> 3, m_id |-> 3, m_numberOfSamples |-> 1,
       text |-> <<124, 35, 97, 124, 120, 32, 49, 10>>],
      [m_chunkId |-> 4, m_id |-> 4, m_numberOfSamples |-> 1,
       text |-> <<124, 35, 97, 10>>],
      [m_chunkId |-> 5, m_id |-> 5, m_numberOfSamples |-> 1,
       text |-> <<124, 122, 32, 49, 10>>],
      [m_chunkId |-> 6, m_id |-> 6, m_numberOfSamples |-> 1,
       text |-> <<124, 120, 32, 49, 32>>],
      [m_chunkId |-> 7, m_id |-> 7, m_numberOfSamples |-> 1,
       text |-> <<124, 120, 32, 49, 9>>]>>

(***************************************************************************)
(* EdgeFileIds has sequence ids:                                           *)
(*   chunk 0:  0 |x 1\n\n0 |x 2\n   three rows, the second a blank line    *)
(*   chunk 1:  1 |#a\n1 |x 3\n      two rows, the first escaped            *)
(*   chunk 2:  2 |z 1\n2 |x 4\n     two rows, the first of an unknown      *)
(*                                  stream                                 *)
(*   chunk 3:  4 |x 1\n             indexed as the sequence of id 3        *)
(*   chunk 4:  |x 1\n               indexed as the sequence of id 4        *)
(***************************************************************************)
EdgeFileIds ==
    <<[m_chunkId |-> 0, m_id |-> 0, m_numberOfSamples |-> 3,
       text |-> <<48, 32, 124, 120, 32, 49, 10, 10, 48, 32, 124, 120, 32, 50, 10>>],
      [m_chunkId |-> 1, m_id |-> 1, m_numberOfSamples |-> 2,
       text |-> <<49, 32, 124, 35, 97, 10, 49, 32, 124, 120, 32, 51, 10>>],
      [m_chunkId |-> 2, m_id |-> 2, m_numberOfSamples |-> 2,
       text |-> <<50, 32, 124, 122, 32, 49, 10, 50, 32, 124, 120, 32, 52, 10>>],
      [m_chunkId |-> 3, m_id |-> 3, m_numberOfSamples |-> 1,
       text |-> <<52, 32, 124, 120, 32, 49, 10>>],
      [m_chunkId |-> 4, m_id |-> 4, m_numberOfSamples |-> 1,
       text |-> <<124, 120, 32, 49, 10>>]>>

(***************************************************************************)
(* A short dense sample: one stream x, dense, of dimension 4.              *)
(*   chunk 0:  |x 1 2\n                                                    *)
(*   chunk 1:  |x 1 2 3 4|x\n                                              *)
(***************************************************************************)
ShortStreams ==
    <<[m_alias |-> <<120>>, m_type |-> "dense", m_sampleDimension |-> 4]>>

ShortFile ==
    <<[m_chunkId |-> 0, m_id |-> 0, m_numberOfSamples |-> 1,
       text |-> <<124, 120, 32, 49, 32, 50, 10>>],
      [m_chunkId |-> 1, m_id |-> 1, m_numberOfSamples |-> 1,
       text |-> <<124, 120, 32, 49, 32, 50, 32, 51, 32, 52, 124, 120, 10>>]>>

(***************************************************************************)
(* A sparse sample and an escape sequence: one stream x, sparse, of        *)
(* dimension 10.                                                           *)
(*   chunk 0:  |x:1 7:2.5 |#junk\n                                         *)
(*   chunk 1:  |x 7:2.5 |#junk\n                                           *)
(***************************************************************************)
SparseStreams10 ==
    <<[m_alias |-> <<120>>, m_type |-> "sparse", m_sampleDimension |-> 10]>>

SparseFile ==
    <<[m_chunkId |-> 0, m_id |-> 0, m_numberOfSamples |-> 1,
       text |-> <<124, 120, 58, 49, 32, 55, 58, 50, 46, 53, 32, 124, 35, 106, 117, 110, 107, 10>>],
      [m_chunkId |-> 1, m_id |-> 1, m_numberOfSamples |-> 1,
       text |-> <<124, 120, 32, 55, 58, 50, 46, 53, 32, 124, 35, 106, 117, 110, 107, 10>>]>>

(***************************************************************************)
(* Well-formed rows: the streams x (dense, of dimension 3) and z (dense,   *)
(* of dimension 1), sequence ids.                                          *)
(*   chunk 0:  0 |x 1 2 3|z 7\n0 |z 8<TAB>|x 4 5 6<CR>\n                   *)
(*   chunk 1:  1 |z 0.25 |x -1.5 2e1 +3\n                                  *)
(***************************************************************************)
WellFormedStreams ==
    <<[m_alias |-> <<120>>, m_type |-> "dense", m_sampleDimension |-> 3],
      [m_alias |-> <<122>>, m_type |-> "dense", m_sampleDimension |-> 1]>>

WellFormedFile ==
    <<[m_chunkId |-> 0, m_id |-> 0, m_numberOfSamples |-> 2,
       text |-> <<48, 32, 124, 120, 32, 49, 32, 50, 32, 51, 124, 122, 32, 55, 10, 48,
               32, 124, 122, 32, 56, 9, 124, 120, 32, 52, 32, 53, 32, 54, 13, 10>>],
      [m_chunkId |-> 1, m_id |-> 1, m_numberOfSamples |-> 1,
       text |-> <<49, 32, 124, 122, 32, 48, 46, 50, 53, 32, 124, 120, 32, 45, 49, 46,
               53, 32, 50, 101, 49, 32, 43, 51, 10>>]>>

(***************************************************************************)
(* Rows with more samples than streams, for the streams of                 *)
(* WellFormedStreams, no sequence ids.                                     *)
(*   chunk 0:  |x 1 |x 2 |z 3    and   |z 4   (one sequence of two rows)   *)
(*   chunk 1:  |x 1 |x 2 |z 3                 (one sequence of one row)    *)
(***************************************************************************)
OverfullFile ==
    <<[m_chunkId |-> 0, m_id |-> 0, m_numberOfSamples |-> 2,
       text |-> <<124, 120, 32, 49, 32, 124, 120, 32, 50, 32, 124, 122, 32, 51, 10,
               124, 122, 32, 52, 10>>],
      [m_chunkId |-> 1, m_id |-> 1, m_numberOfSamples |-> 1,
       text |-> <<124, 120, 32, 49, 32, 124, 120, 32, 50, 32, 124, 122, 32, 51, 10>>]>>

\* the parser is in LoadSequence
InLoadSequence == parser.pc \in {"row", "rowret", "post"}

\* LoadChunk calls LoadSequence for the one sequence of the chunk
LoadSequenceCall(chunkId) ==
    /\ ~Throws(parser)
    /\ ~InLoadSequence
    /\ parser.loads < MaxSequences
    /\ parser' = LoadSequenceBegin([ForgetLocals(parser) EXCEPT !.loads = @ + 1],
                                   ~parser.m_skipSequenceIds,
                                   parser.index[chunkId + 1].m_sequences[1])
    /\ last' = [NoCall EXCEPT !.op = "LoadSequence", !.chunkId = chunkId]
    /\ UNCHANGED <<cache, heap, held>>

\* TryReadRow tests the condition of its second loop and runs the body once
TryReadRowIteration ==
    /\ ~Throws(parser)
    /\ parser.pc = "row"
    /\ parser' = TryReadRowStep(parser)
    /\ UNCHANGED <<cache, heap, held, last>>

\* TryReadRow has returned: LoadSequence counts the row and goes on
TryReadRowReturn ==
    /\ ~Throws(parser)
    /\ parser.pc = "rowret"
    /\ parser' = AfterRow(parser)
    /\ UNCHANGED <<cache, heap, held, last>>

\* LoadSequence checks the streams and returns the sequence
LoadSequenceReturn ==
    /\ ~Throws(parser)
    /\ parser.pc = "post"
    /\ parser' = LoadSequenceEnd(parser)
    /\ UNCHANGED <<cache, heap, held, last>>

\* a RuntimeError leaves LoadSequence, LoadChunk and GetChunk: their locals are
\* gone, the exception is the caller's
Unwind ==
    /\ Throws(parser)
    /\ parser' = [ForgetLocals(parser) EXCEPT !.dead = "none"]
    /\ last' = [last EXCEPT !.outcome = parser.dead]
    /\ UNCHANGED <<cache, heap, held>>

(***************************************************************************)
(* Malformed numbers, for the streams of ParseStreams, no sequence ids.    *)
(*   chunk 0:  |x 1 2a|y 0:1|x 3 4                                         *)
(*   chunk 1:  |y 1:a|y 2:1|x 1 2                                          *)
(*   chunk 2:  _a|x 1 2|y 0:1      a byte in place of a name prefix        *)
(***************************************************************************)
MalformedFile ==
    <<[m_chunkId |-> 0, m_id |-> 0, m_numberOfSamples |-> 1,
       text |-> <<124, 120, 32, 49, 32, 50, 97, 124, 121, 32, 48, 58, 49, 124, 120, 32,
               51, 32, 52, 10>>],
      [m_chunkId |-> 1, m_id |-> 1, m_numberOfSamples |-> 1,
       text |-> <<124, 121, 32, 49, 58, 97, 124, 121, 32, 50, 58, 49, 124, 120, 32, 49,
               32, 50, 10>>],
      [m_chunkId |-> 2, m_id |-> 2, m_numberOfSamples |-> 1,
       text |-> <<32, 97, 124, 120, 32, 49, 32, 50, 124, 121, 32, 48, 58, 49, 10>>]>>

ParseInit ==
    /\ \E maxErrors \in 0..MaxErrors :
          \/ parser = ParserOf(ParseFilePlain, ParseStreams, FALSE, maxErrors, 0)
          \/ parser = ParserOf(ParseFileIds, ParseStreams, TRUE, maxErrors, 0)
          \/ parser = ParserOf(EdgeFilePlain, EdgeStreams, FALSE, maxErrors, 0)
          \/ parser = ParserOf(EdgeFileIds, EdgeStreams, TRUE, maxErrors, 0)
          \/ parser = ParserOf(ShortFile, ShortStreams, FALSE, maxErrors, 0)
          \/ parser = ParserOf(SparseFile, SparseStreams10, FALSE, maxErrors, 0)
          \/ parser = ParserOf(WellFormedFile, WellFormedStreams, TRUE, maxErrors, 0)
          \/ parser = ParserOf(OverfullFile, WellFormedStreams, FALSE, maxErrors, 0)
          \/ parser = ParserOf(MalformedFile, ParseStreams, FALSE, maxErrors, 0)
    /\ cache = EmptyMap
    /\ heap = EmptyMap
    /\ held = {}
    /\ last = NoCall

ParseNext ==
    \/ \E chunkId \in ChunkIds : LoadSequenceCall(chunkId)
    \/ TryReadRowIteration
    \/ TryReadRowReturn
    \/ LoadSequenceReturn
    \/ Unwind

ParseSpec == ParseInit /\ [][ParseNext]_vars

\* LoadSequence runs on the caller's thread: a statement that can be executed
\* is executed, and an exception thrown is propagated
FairParseSpec ==
    ParseSpec /\ WF_vars(TryReadRowIteration \/ TryReadRowReturn \/ LoadSequenceReturn \/ Unwind)

(***************************************************************************)
(* The cache level for a file of two streams: the chunks and sequences of  *)
(* WellFormedFile, a caller that gets chunks and sequences and keeps what  *)
(* it gets.                                                                *)
(***************************************************************************)
CountInit ==
    /\ \E cacheSize \in 0..MaxCacheSize :
          parser = ParserOf(WellFormedFile, WellFormedStreams, TRUE, 0, cacheSize)
    /\ cache = EmptyMap
    /\ heap = EmptyMap
    /\ held = {}
    /\ last = NoCall

CountNext ==
    \/ \E chunkId \in ChunkIds : GetChunk(chunkId)
    \/ \E o \in held : \E sequenceId \in DOMAIN heap[o].m_sequenceMap : GetSequence(o, sequenceId)

CountSpec == CountInit /\ [][CountNext]_vars

(***************************************************************************)
(* The reader level: LoadSequence in steps on the file of the cache level, *)
(* sequences loaded in any order, and one call of fread that may read      *)
(* nothing.                                                                *)
(***************************************************************************)
ReaderInit ==
    /\ \E maxErrors \in 0..MaxErrors, readsToFailure \in -1..MaxGoodReads :
          parser = [ParserOf(CacheFile, CacheStreams, FALSE, maxErrors, 0)
                       EXCEPT !.readsToFailure = readsToFailure]
    /\ cache = EmptyMap
    /\ heap = EmptyMap
    /\ held = {}
    /\ last = NoCall

ReaderNext ==
    \/ \E chunkId \in ChunkIds : LoadSequenceCall(chunkId)
    \/ TryReadRowIteration
    \/ TryReadRowReturn
    \/ LoadSequenceReturn
    \/ Unwind

ReaderSpec == ReaderInit /\ [][ReaderNext]_vars

(***************************************************************************)
(* The budget level: GetChunk on the file of the cache level, with the     *)
(* cache disabled or of one chunk, some seeks that fail and a reader that  *)
(* retries or does not.                                                    *)
(***************************************************************************)
BudgetInit ==
    /\ \E maxErrors \in 0..MaxErrors, cacheSize \in 0..1,
          numRetries \in {0, DefaultNumRetries}, seekFailures \in 0..1 :
          parser = [ParserOf(CacheFile, CacheStreams, FALSE, maxErrors, cacheSize)
                       EXCEPT !.m_numRetries = numRetries, !.seekFailures = seekFailures]
    /\ cache = EmptyMap
    /\ heap = EmptyMap
    /\ held = {}
    /\ last = NoCall

BudgetNext == \E chunkId \in ChunkIds : GetChunk(chunkId)

BudgetSpec == BudgetInit /\ [][BudgetNext]_vars

(***************************************************************************)
(* The configured skip_sequence_ids and the indexer's answer: the parser   *)
(* is configured either way, and Initialize takes HasSequenceIds from the  *)
(* indexer.  SkippedIdsFile is indexed without sequence ids (one sequence  *)
(* per position of the index) though some of its rows begin with digits:   *)
(*   chunk 0:  7 |x 1\n             digits that are not the index's id     *)
(*   chunk 1:  |x 2\n               no digits                              *)
(*   chunk 2:  12 |x 1\n34 |x 2\n   two rows, both with digits             *)
(***************************************************************************)
SkippedIdsFile ==
    <<[m_chunkId |-> 0, m_id |-> 0, m_numberOfSamples |-> 1,
       text |-> <<55, 32, 124, 120, 32, 49, 10>>],
      [m_chunkId |-> 1, m_id |-> 1, m_numberOfSamples |-> 1,
       text |-> <<124, 120, 32, 50, 10>>],
      [m_chunkId |-> 2, m_id |-> 2, m_numberOfSamples |-> 2,
       text |-> <<49, 50, 32, 124, 120, 32, 49, 10, 51, 52, 32, 124, 120, 32, 50, 10>>]>>

\* the parser of a file, configured with skip and initialized with the
\* indexer's hasSequenceIds
ConfiguredParserOf(seqs, streams, skip, hasSequenceIds, maxErrors) ==
    Initialize(SetSkipSequenceIds(NewParser(FileOf(seqs), streams, maxErrors, 0), skip),
               IndexOf(seqs), hasSequenceIds)

SkipInit ==
    /\ \E maxErrors \in 0..MaxErrors, skip \in BOOLEAN :
          \/ parser = ConfiguredParserOf(WellFormedFile, WellFormedStreams, skip, TRUE, maxErrors)
          \/ parser = ConfiguredParserOf(EdgeFileIds, EdgeStreams, skip, TRUE, maxErrors)
          \/ parser = ConfiguredParserOf(SkippedIdsFile, EdgeStreams, skip, FALSE, maxErrors)
    /\ cache = EmptyMap
    /\ heap = EmptyMap
    /\ held = {}
    /\ last = NoCall

SkipNext ==
    \/ \E chunkId \in ChunkIds : LoadSequenceCall(chunkId)
    \/ TryReadRowIteration
    \/ TryReadRowReturn
    \/ LoadSequenceReturn
    \/ Unwind

SkipSpec == SkipInit /\ [][SkipNext]_vars

(***************************************************************************)
(* The scanner level: TryReadUint64 and TryReadRealNumber, one iteration   *)
(* of their loop at a time, on a sequence that holds one number and what   *)
(* follows it.                                                             *)
(***************************************************************************)
\* the most digits of an unsigned number
MaxDigits == 21
\* the most bytes of a real number and what follows it
MaxRealLength == 6

RECURSIVE Repeat(_, _)
Repeat(c, n) == IF n = 0 THEN <<>> ELSE <<c>> \o Repeat(c, n - 1)

\* 18446744073709551615 = 2^64 - 1 and 18446744073709551616 = 2^64
LargestUint64Text == <<49, 56, 52, 52, 54, 55, 52, 52, 48, 55, 51, 55, 48, 57, 53, 53, 49, 54, 49, 53>>
TwoTo64Text == <<49, 56, 52, 52, 54, 55, 52, 52, 48, 55, 51, 55, 48, 57, 53, 53, 49, 54, 49, 54>>

\* what follows the digits: a space, a colon, a newline, the letter x, nothing
UintTerminators == {<<32>>, <<58>>, <<10>>, <<120>>, <<>>}

\* a digit and then zeros or nines, or no digit at all, and what follows
UintTexts ==
    {(<<first>> \o Repeat(fill, n)) \o end :
        first \in 48..57, fill \in {48, 57}, n \in 0..(MaxDigits - 1), end \in UintTerminators}
    \cup {digits \o end : digits \in {<<>>, LargestUint64Text, TwoTo64Text}, end \in UintTerminators}

\* the bytes 0 2 - . e and the space
RealBytes == {48, 50, 45, 46, 101, 32}

RECURSIVE TextsOfLength(_)
\* the texts of n bytes with no space
TextsOfLength(n) ==
    IF n = 0
    THEN {<<>>}
    ELSE {Append(s, c) : s \in TextsOfLength(n - 1), c \in RealBytes \ {VALUE_DELIMITER}}

\* the exponents of the text are below 10, as far as digits follow an e or an e
\* and a sign: the values of the model are exact
ExponentFits(text) ==
    \A i \in 1..Len(text) :
       isE(text[i]) =>
          LET start == IF i < Len(text) /\ isSign(text[i + 1]) THEN i + 2 ELSE i + 1
          IN  \A k \in start..(Len(text) - 1) :
                 (\A m \in start..(k + 1) : isdigit(text[m])) => text[k] = ChZero

\* +2 and a space, 2E+2 and a space, 2.5x
PlusTexts == {<<43, 50, 32>>, <<50, 69, 43, 50, 32>>, <<50, 46, 53, 120>>}

\* texts of at most MaxRealLength bytes, the space at most as the last, and the
\* texts with a plus sign
RealTexts ==
    {text \in {Append(s, c) : s \in UNION {TextsOfLength(n) : n \in 0..(MaxRealLength - 1)},
                              c \in RealBytes} : ExponentFits(text)}
    \cup PlusTexts

\* a parser that LoadSequence has positioned on a sequence of the bytes text
Scanner(text) ==
    [PositionAt(ParserOf(<<[m_chunkId |-> 0, m_id |-> 0, m_numberOfSamples |-> 1,
                            text |-> text]>>, EdgeStreams, FALSE, 0, 0), 0)
        EXCEPT !.bytesToRead = Len(text), !.consumed = 0]

\* one test of the loop's condition of TryReadUint64 and, if it holds, one iteration
ReadUint64Step(p0) ==
    Let(BytesLeft(p0), LAMBDA p :
        IF ~p.ret
        THEN [p EXCEPT !.pc = "scanned"]
        ELSE Let(ReadUint64Body(p), LAMBDA q :
                 IF q.go THEN Advance(q) ELSE [q EXCEPT !.pc = "scanned"]))

\* a scanner that passes the byte that ends the number
ReadRealNumberStepPast(p0) ==
    Let(BytesLeft(p0), LAMBDA p :
        IF ~p.ret
        THEN [p EXCEPT !.pc = "scanned"]
        ELSE Let(ReadRealNumberBody(p), LAMBDA q :
                 IF q.go \/ q.ret THEN [Advance(q) EXCEPT !.pc = IF q.go THEN "real" ELSE "scanned"]
                 ELSE [q EXCEPT !.pc = "scanned"]))

\* a scanner that, out of input, returns the number it has read
ReadRealNumberStepLenient(p0) ==
    Let(BytesLeft(p0), LAMBDA p :
        IF ~p.ret
        THEN [p EXCEPT !.ret = p.state \in {"IntegralPart", "Period", "FractionalPart", "Exponent"},
                       !.pc = "scanned"]
        ELSE Let(ReadRealNumberBody(p), LAMBDA q :
                 IF q.go THEN Advance(q) ELSE [q EXCEPT !.pc = "scanned"]))

\* one test of the loop's condition of TryReadRealNumber and, if it holds, one
\* iteration
ReadRealNumberStep(p0) ==
    Let(BytesLeft(p0), LAMBDA p :
        IF ~p.ret
        THEN [p EXCEPT !.pc = "scanned"]
        ELSE Let(ReadRealNumberBody(p), LAMBDA q :
                 IF q.go THEN Advance(q) ELSE [q EXCEPT !.pc = "scanned"]))

ScanInit ==
    /\ \/ \E text \in UintTexts :
             /\ parser = Scanner(text)
             /\ last = [NoCall EXCEPT !.op = "TryReadUint64"]
       \/ \E text \in RealTexts :
             /\ parser = Scanner(text)
             /\ last = [NoCall EXCEPT !.op = "TryReadRealNumber"]
    /\ cache = EmptyMap
    /\ heap = EmptyMap
    /\ held = {}

\* TryReadUint64 is called: value = 0; found = false
ReadUint64Call ==
    /\ last.op = "TryReadUint64"
    /\ parser.pc = "idle"
    /\ parser' = [parser EXCEPT !.value = U64Zero, !.found = FALSE, !.pc = "uint64"]
    /\ UNCHANGED <<cache, heap, held, last>>

ReadUint64Iteration ==
    /\ parser.pc = "uint64"
    /\ parser' = ReadUint64Step(parser)
    /\ UNCHANGED <<cache, heap, held, last>>

\* TryReadRealNumber is called: state = Init and its other locals
ReadRealNumberCall ==
    /\ last.op = "TryReadRealNumber"
    /\ parser.pc = "idle"
    /\ parser' = [parser EXCEPT !.state = "Init", !.coefficient = RealZero, !.number = 0,
                                !.divider = 0, !.negative = FALSE, !.pc = "real"]
    /\ UNCHANGED <<cache, heap, held, last>>

ReadRealNumberIteration ==
    /\ parser.pc = "real"
    /\ parser' = ReadRealNumberStep(parser)
    /\ UNCHANGED <<cache, heap, held, last>>

ScanNext ==
    \/ ReadUint64Call
    \/ ReadUint64Iteration
    \/ ReadRealNumberCall
    \/ ReadRealNumberIteration

ScanSpec == ScanInit /\ [][ScanNext]_vars

(***************************************************************************)
(* The Dictionary of the library and its serialization (Utils.cpp).  A     *)
(* DictionaryValue is [m_valueType, m_data]; m_data holds the member of    *)
(* the union in use, m_ptr being [T |-> the object of type T it points     *)
(* to].  A Dictionary is its m_dictionaryData, a function from keys to     *)
(* DictionaryValues.  An NDArrayView is [m_dataType, m_viewShape, buffer]. *)
(* A float or a double is [isnan, value], value an exact rational.  A File *)
(* is the sequence of the built-in values written to it in binary mode,    *)
(* each (T :> x) for a value x of type T.                                  *)
(***************************************************************************)
NaN == [isnan |-> TRUE, value |-> RealZero]
Number(n, d) == [isnan |-> FALSE, value |-> Rational(n, d)]

\* a == b for floats and for doubles: a NaN equals nothing
FloatEquals(a, b) == ~a.isnan /\ ~b.isnan /\ a.value = b.value

\* DictionaryValue::version and Dictionary::version
DictionaryVersion == 1

\* stream << x for an x of the built-in type T
Put(T, x) == <<(T :> x)>>

\* stream >> x for an x of the built-in type T: the bytes at the position of the
\* stream are taken for a T
Get(stream, T) == [us |-> Head(stream)[T], stream |-> Tail(stream)]

RECURSIVE ShapeTotalSize(_)
\* NDShape::TotalSize()
ShapeTotalSize(shape) ==
    IF shape = <<>> THEN 1 ELSE Head(shape) * ShapeTotalSize(Tail(shape))

\* the type of the elements of a view
ElementType(view) == IF view.m_dataType = "Float" THEN "float" ELSE "double"

RECURSIVE ConcatAll(_)
ConcatAll(parts) == IF parts = <<>> THEN <<>> ELSE Head(parts) \o ConcatAll(Tail(parts))

\* operator<<(File&, const NDShape&)
WriteNDShape(us) ==
    Put("size_t", Len(us)) \o ConcatAll([i \in 1..Len(us) |-> Put("size_t", us[i])])

\* Write<T>(stream, view)
WriteView(view) ==
    ConcatAll([i \in 1..ShapeTotalSize(view.m_viewShape) |->
                  Put(ElementType(view), view.buffer[i])])

\* the keys of the dictionaries made
DictionaryKeys == <<"key0", "key1">>

Reverse(s) == [i \in 1..Len(s) |-> s[Len(s) + 1 - i]]

\* the order in which for (auto kv : *m_dictionaryData) visits the keys is the
\* unordered_map's: order tells which
KeyOrder(keys, order) ==
    SelectSeq(IF order = "ascending" THEN DictionaryKeys ELSE Reverse(DictionaryKeys),
              LAMBDA key : key \in keys)

RECURSIVE WriteDictionaryValue(_, _)
RECURSIVE WriteDictionary(_, _)
\* operator<<(File&, const DictionaryValue&)
WriteDictionaryValue(us, order) ==
    Put("size_t", DictionaryVersion) \o Put("Type", us.m_valueType) \o
    CASE us.m_valueType = "Bool" -> Put("bool", us.m_data.m_boolean)
      [] us.m_valueType = "SizeT" -> Put("size_t", us.m_data.m_sizeT)
      [] us.m_valueType = "Float" -> Put("float", us.m_data.m_float)
      [] us.m_valueType = "Double" -> Put("double", us.m_data.m_double)
      [] us.m_valueType = "String" -> Put("wstring", us.m_data.m_ptr.wstring)
      [] us.m_valueType = "NDShape" -> WriteNDShape(us.m_data.m_ptr.NDShape)
      [] us.m_valueType = "Vector" ->
            Put("size_t", Len(us.m_data.m_ptr.vector)) \o
            ConcatAll([i \in 1..Len(us.m_data.m_ptr.vector) |->
                          WriteDictionaryValue(us.m_data.m_ptr.vector[i], order)])
      [] us.m_valueType = "Dictionary" -> WriteDictionary(us.m_data.m_ptr.Dictionary, order)
      [] us.m_valueType = "NDArrayView" ->
            Put("DataType", us.m_data.m_ptr.NDArrayView.m_dataType) \o
            WriteNDShape(us.m_data.m_ptr.NDArrayView.m_viewShape) \o
            WriteView(us.m_data.m_ptr.NDArrayView)

\* operator<<(File&, const Dictionary&)
WriteDictionary(us, order) ==
    Put("size_t", DictionaryVersion) \o Put("size_t", Cardinality(DOMAIN us)) \o
    ConcatAll([i \in 1..Cardinality(DOMAIN us) |->
                  Put("wstring", KeyOrder(DOMAIN us, order)[i]) \o
                  WriteDictionaryValue(us[KeyOrder(DOMAIN us, order)[i]], order)])

RECURSIVE ReadSizes(_, _, _)
\* for (auto i = 0; i < size; i++) stream >> shape[i], from the i-th on
ReadSizes(r, i, size) ==
    IF i > size
    THEN r
    ELSE Let(Get(r.stream, "size_t"), LAMBDA g :
             ReadSizes([us |-> Append(r.us, g.us), stream |-> g.stream], i + 1, size))

\* stream >> size and the NDShape of that many dimensions
ReadNDShape(stream) ==
    Let(Get(stream, "size_t"), LAMBDA g :
        ReadSizes([us |-> <<>>, stream |-> g.stream], 1, g.us))

RECURSIVE ReadViewFrom(_, _, _, _)
\* Read<T>(stream, view), from the i-th element on
ReadViewFrom(r, T, i, numElements) ==
    IF i > numElements
    THEN r
    ELSE Let(Get(r.stream, T), LAMBDA g :
             ReadViewFrom([us |-> Append(r.us, g.us), stream |-> g.stream],
                          T, i + 1, numElements))

\* the members of the union, for the value read
Data(member, x) == member :> x
Ptr(T, x) == [m_ptr |-> (T :> x)]
DictionaryValueOf(type, data) == [m_valueType |-> type, m_data |-> data]

\* a vector that is filled from its end
StoreReversed(vector, x) == <<x>> \o vector

\* vectorPtr->at(i) is set, the elements before it being set
Store(vector, x) == Append(vector, x)

RECURSIVE ReadDictionaryValue(_)
RECURSIVE ReadVectorFrom(_, _, _)
RECURSIVE ReadDictionary(_)
RECURSIVE ReadPairsFrom(_, _, _)
\* operator>>(File&, DictionaryValue&): us is the value read, stream what is left
ReadDictionaryValue(stream) ==
    Let(Get(Get(stream, "size_t").stream, "Type"), LAMBDA t :
        CASE t.us = "Bool" ->
                Let(Get(t.stream, "bool"), LAMBDA g :
                    [g EXCEPT !.us = DictionaryValueOf(t.us, Data("m_boolean", g.us))])
          [] t.us = "SizeT" ->
                Let(Get(t.stream, "size_t"), LAMBDA g :
                    [g EXCEPT !.us = DictionaryValueOf(t.us, Data("m_sizeT", g.us))])
          [] t.us = "Float" ->
                Let(Get(t.stream, "float"), LAMBDA g :
                    [g EXCEPT !.us = DictionaryValueOf(t.us, Data("m_float", g.us))])
          [] t.us = "Double" ->
                Let(Get(t.stream, "double"), LAMBDA g :
                    [g EXCEPT !.us = DictionaryValueOf(t.us, Data("m_double", g.us))])
          [] t.us = "String" ->
                Let(Get(t.stream, "wstring"), LAMBDA g :
                    [g EXCEPT !.us = DictionaryValueOf(t.us, Ptr("wstring", g.us))])
          [] t.us = "NDShape" ->
                Let(ReadNDShape(t.stream), LAMBDA g :
                    [g EXCEPT !.us = DictionaryValueOf(t.us, Ptr("NDShape", g.us))])
          [] t.us = "Vector" ->
                Let(Get(t.stream, "size_t"), LAMBDA size :
                Let(ReadVectorFrom([us |-> <<>>, stream |-> size.stream], 1, size.us), LAMBDA g :
                    [g EXCEPT !.us = DictionaryValueOf(t.us, Ptr("vector", g.us))]))
          [] t.us = "Dictionary" ->
                Let(ReadDictionary(t.stream), LAMBDA g :
                    [g EXCEPT !.us = DictionaryValueOf(t.us, Ptr("Dictionary", g.us))])
          [] t.us = "NDArrayView" ->
                Let(Get(t.stream, "DataType"), LAMBDA dtype :
                Let(ReadNDShape(dtype.stream), LAMBDA shape :
                Let(ReadViewFrom([us |-> <<>>, stream |-> shape.stream],
                                 IF dtype.us = "Float" THEN "float" ELSE "double",
                                 1, ShapeTotalSize(shape.us)), LAMBDA g :
                    [g EXCEPT !.us = DictionaryValueOf(t.us, Ptr("NDArrayView",
                        [m_dataType |-> dtype.us, m_viewShape |-> shape.us,
                         buffer |-> g.us]))]))))

\* for (auto i = 0; i < size; i++) stream >> vectorPtr->at(i), from the i-th on
ReadVectorFrom(r, i, size) ==
    IF i > size
    THEN r
    ELSE Let(ReadDictionaryValue(r.stream), LAMBDA g :
             ReadVectorFrom([us |-> Store(r.us, g.us), stream |-> g.stream], i + 1, size))

\* for (auto i = 0; i < size; i++) { stream >> key; stream >> us[key]; }, from the
\* i-th pair on
ReadPairsFrom(r, i, size) ==
    IF i > size
    THEN r
    ELSE Let(Get(r.stream, "wstring"), LAMBDA key :
         Let(ReadDictionaryValue(key.stream), LAMBDA g :
             ReadPairsFrom([us |-> (key.us :> g.us) @@ r.us, stream |-> g.stream],
                           i + 1, size)))

\* operator>>(File&, Dictionary&) for an empty us
ReadDictionary(stream) ==
    Let(Get(Get(stream, "size_t").stream, "size_t"), LAMBDA size :
        ReadPairsFrom([us |-> EmptyMap, stream |-> size.stream], 1, size.us))

\* CheckViewsEquivalent<ElementType>(view1, view2)
CheckViewsEquivalent(view1, view2) ==
    /\ view1.m_dataType = view2.m_dataType
    /\ view1.m_viewShape = view2.m_viewShape
    /\ \A i \in 1..ShapeTotalSize(view1.m_viewShape) :
          FloatEquals(view1.buffer[i], view2.buffer[i])

RECURSIVE DictionaryValueEquals(_, _)
RECURSIVE DictionaryEquals(_, _)
\* DictionaryValue::operator== for two objects
DictionaryValueEquals(a, b) ==
    /\ a.m_valueType = b.m_valueType
    /\ CASE a.m_valueType = "Bool" -> a.m_data.m_boolean = b.m_data.m_boolean
         [] a.m_valueType = "SizeT" -> a.m_data.m_sizeT = b.m_data.m_sizeT
         [] a.m_valueType = "Float" -> FloatEquals(a.m_data.m_float, b.m_data.m_float)
         [] a.m_valueType = "Double" -> FloatEquals(a.m_data.m_double, b.m_data.m_double)
         [] a.m_valueType = "String" -> a.m_data.m_ptr.wstring = b.m_data.m_ptr.wstring
         [] a.m_valueType = "NDShape" -> a.m_data.m_ptr.NDShape = b.m_data.m_ptr.NDShape
         [] a.m_valueType = "Vector" ->
               /\ Len(a.m_data.m_ptr.vector) = Len(b.m_data.m_ptr.vector)
               /\ \A i \in 1..Len(a.m_data.m_ptr.vector) :
                     DictionaryValueEquals(a.m_data.m_ptr.vector[i], b.m_data.m_ptr.vector[i])
         [] a.m_valueType = "Dictionary" ->
               DictionaryEquals(a.m_data.m_ptr.Dictionary, b.m_data.m_ptr.Dictionary)
         [] a.m_valueType = "NDArrayView" ->
               CheckViewsEquivalent(a.m_data.m_ptr.NDArrayView, b.m_data.m_ptr.NDArrayView)

\* Dictionary::operator== for two objects
DictionaryEquals(a, b) ==
    /\ Cardinality(DOMAIN a) = Cardinality(DOMAIN b)
    /\ \A key \in DOMAIN a : key \in DOMAIN b /\ DictionaryValueEquals(a[key], b[key])

(***************************************************************************)
(* The dictionaries TestDictionarySerialization is run with: every variant *)
(* but Vector and Dictionary is a leaf; a vector holds a value of the      *)
(* depth below and then leaves, a dictionary a value of the depth below    *)
(* under key0 and possibly a leaf under key1.                              *)
(***************************************************************************)
\* the deepest nesting of vectors and dictionaries inside the dictionary
MaxNestingDepth == 1
\* the most elements of a vector
MaxNestedVectorSize == 2

FloatView ==
    [m_dataType |-> "Float", m_viewShape |-> <<2>>, buffer |-> <<Number(3, 2), Number(-4, 1)>>]
DoubleView ==
    [m_dataType |-> "Double", m_viewShape |-> <<1, 2>>, buffer |-> <<Number(1, 4), NaN>>]

Leaves ==
    {DictionaryValueOf("Bool", Data("m_boolean", TRUE)),
     DictionaryValueOf("SizeT", Data("m_sizeT", 7)),
     DictionaryValueOf("Float", Data("m_float", Number(3, 2))),
     DictionaryValueOf("Float", Data("m_float", NaN)),
     DictionaryValueOf("Double", Data("m_double", Number(1, 4))),
     DictionaryValueOf("String", Ptr("wstring", "ab")),
     DictionaryValueOf("NDShape", Ptr("NDShape", <<2, 3>>)),
     DictionaryValueOf("NDArrayView", Ptr("NDArrayView", FloatView)),
     DictionaryValueOf("NDArrayView", Ptr("NDArrayView", DoubleView))}

\* the values that follow the first in a vector, and the values under key1
TailLeaves ==
    {DictionaryValueOf("SizeT", Data("m_sizeT", 7)),
     DictionaryValueOf("String", Ptr("wstring", "ab"))}

RECURSIVE TailsUpTo(_)
\* the sequences of at most n TailLeaves
TailsUpTo(n) ==
    IF n = 0
    THEN {<<>>}
    ELSE TailsUpTo(n - 1) \cup {Append(s, x) : s \in {t \in TailsUpTo(n - 1) : Len(t) = n - 1}, x \in TailLeaves}

\* the dictionaries whose value under key0 is in S
DictionariesOver(S) ==
    {EmptyMap}
    \cup {("key0" :> x) : x \in S}
    \cup {("key0" :> x) @@ ("key1" :> y) : x \in S, y \in TailLeaves}

RECURSIVE ValuesOfDepth(_)
\* the values nested depth deep at most
ValuesOfDepth(depth) ==
    IF depth = 0
    THEN Leaves
    ELSE Leaves
         \cup {DictionaryValueOf("Vector", Ptr("vector", <<>>))}
         \cup {DictionaryValueOf("Vector", Ptr("vector", <<x>> \o tail)) :
                  x \in ValuesOfDepth(depth - 1), tail \in TailsUpTo(MaxNestedVectorSize - 1)}
         \cup {DictionaryValueOf("Dictionary", Ptr("Dictionary", d)) :
                  d \in DictionariesOver(ValuesOfDepth(depth - 1))}

\* CreateDictionary(dictSize)
Dictionaries == DictionariesOver(ValuesOfDepth(MaxNestingDepth))

(***************************************************************************)
(* TestDictionarySerialization.  Of the variables it uses heap, for its    *)
(* objects originalDict, deserializedDict and the content of the file      *)
(* serialization.tmp, and last, for the statement it has come to; it makes *)
(* no parser and no cache.                                                 *)
(***************************************************************************)
DictionaryInit ==
    /\ parser = EmptyMap
    /\ cache = EmptyMap
    /\ held = {}
    /\ \E d \in Dictionaries :
          heap = [originalDict |-> d, fstream |-> <<>>, deserializedDict |-> EmptyMap]
    /\ last = [NoCall EXCEPT !.op = "CreateDictionary"]

\* fstream << originalDict
SerializeDictionary ==
    /\ last.op = "CreateDictionary"
    /\ \E order \in {"ascending", "descending"} :
          heap' = [heap EXCEPT !.fstream = WriteDictionary(heap.originalDict, order)]
    /\ last' = [last EXCEPT !.op = "operator<<"]
    /\ UNCHANGED <<parser, cache, held>>

\* fstream >> deserializedDict
DeserializeDictionary ==
    /\ last.op = "operator<<"
    /\ \E r \in {ReadDictionary(heap.fstream)} :
          /\ heap' = [heap EXCEPT !.deserializedDict = r.us]
          /\ last' = [last EXCEPT !.op = "operator>>",
                                  !.outcome = IF r.stream = <<>> THEN "end of file" ELSE "bytes left"]
    /\ UNCHANGED <<parser, cache, held>>

NotIdenticalMessage ==
    "TestDictionarySerialization: original and deserialized dictionaries are not identical."

\* if (originalDict != deserializedDict) throw ...
CompareDictionaries ==
    /\ last.op = "operator>>"
    /\ last' = [last EXCEPT !.op = "operator!=",
                            !.outcome = IF DictionaryEquals(heap.originalDict, heap.deserializedDict)
                                        THEN "ok" ELSE NotIdenticalMessage]
    /\ UNCHANGED <<parser, cache, heap, held>>

DictionaryNext ==
    \/ SerializeDictionary
    \/ DeserializeDictionary
    \/ CompareDictionaries

DictionarySpec == DictionaryInit /\ [][DictionaryNext]_vars

(***************************************************************************)
(* Properties of the cache level (specification Spec) and of the           *)
(* ownership level (specification OwnerSpec).                              *)
(***************************************************************************)
CachedObjects == {cache[k] : k \in DOMAIN cache}
LiveObjects == {o \in DOMAIN heap : ~heap[o].freed}
GetChunkDone == last.op = "GetChunk"
GetChunkFailed == GetChunkDone /\ last.outcome \notin {"ok", AssertMessage}

\* C1: with max_allowed_errors = N the first N calls of IncrementNumberOfErrorsOrDie
\* each take one from m_numAllowedErrors and return, every later call throws the
\* "Reached the maximum number of allowed errors" error, and m_numAllowedErrors
\* never passes below zero.
ErrorBudgetCounts ==
    /\ parser.m_numAllowedErrors >= 0
    /\ parser.m_numAllowedErrors = Max(parser.maxAllowedErrors - parser.incCalls, 0)
    /\ parser.incThrows = Max(parser.incCalls - parser.maxAllowedErrors, 0)
    /\ last.outcome = MaxErrorsMessage => parser.incCalls > parser.maxAllowedErrors

\* a parser of budget N >= 1 whose call N + 1 has thrown
ErrorBudgetSpent ==
    /\ parser.maxAllowedErrors >= 1
    /\ parser.incCalls = parser.maxAllowedErrors + 1
    /\ parser.incThrows = 1
    /\ last.outcome = MaxErrorsMessage

\* C2: with chunk_cache_size = C > 0 the cache never holds more than C chunks,
\* whatever calls of GetChunk and GetSequence were made.
CacheBounded ==
    parser.m_chunkCacheSize > 0 => Cardinality(DOMAIN cache) <= parser.m_chunkCacheSize

\* size() - m_sequenceRequestCount of the chunk cached under key k
Left(k) == NumSequencesLeft(heap[cache[k]])

\* the key the claim says is evicted: the least key among those that minimise Left
IsVictim(v) ==
    \A w \in DOMAIN cache : ~SizeTLess(Left(w), Left(v)) /\ (Left(w) = Left(v) => v <= w)

\* a step of GetChunk that found the cache full and loaded the chunk
MissWhenFull ==
    /\ last'.op = "GetChunk" /\ last'.how = "miss"
    /\ last'.outcome \in {"ok", AssertMessage}
    /\ MustEvict(cache, parser.m_chunkCacheSize)

\* C3: a miss with the cache full evicts exactly one resident chunk, the one that
\* minimises m_sequenceMap.size() - m_sequenceRequestCount (the lowest chunk id among
\* equals), before the new chunk is inserted; a victim is always found.
EvictionFindsVictim ==
    [][MissWhenFull =>
          \E v \in DOMAIN cache :
             /\ IsVictim(v)
             /\ last'.outcome = "ok"
             /\ last'.candidateId = v
             /\ DOMAIN cache' = (DOMAIN cache \ {v}) \cup {last'.chunkId}]_vars

\* C4: with the cache enabled, a successful GetChunk(k) returns a chunk whose
\* sequences equal those of every chunk returned for k before, and when k is in the
\* cache it returns the cached chunk itself and does not decode.
GetChunkIdempotent ==
    [][(parser.m_chunkCacheSize >= 1 /\ last'.op = "GetChunk" /\ last'.outcome = "ok") =>
          /\ \A o \in LiveObjects :
                heap[o].m_id = last'.chunkId =>
                    heap'[last'.chunk].m_sequenceMap = heap[o].m_sequenceMap
          /\ last'.chunkId \in DOMAIN cache =>
                /\ last'.chunk = cache[last'.chunkId]
                /\ last'.how = "hit"
                /\ parser'.loads = parser.loads
                /\ cache' = cache]_vars

\* the caller holds two chunk objects of one chunk id, the later decoded after the
\* earlier was evicted, and the last call was a hit
GetChunkAgain ==
    /\ parser.m_chunkCacheSize >= 1
    /\ last.op = "GetChunk" /\ last.how = "hit" /\ last.outcome = "ok"
    /\ \E o \in held : o # last.chunk /\ heap[o].m_id = last.chunkId

\* C5: with chunk_cache_size = 0 the cache stays empty and every GetChunk(k) runs
\* LoadChunk and, when it returns, returns a new chunk object.
NoCacheDecodesAfresh ==
    [][(parser.m_chunkCacheSize = 0 /\ last'.op = "GetChunk") =>
          /\ cache' = EmptyMap
          /\ last'.how = "miss"
          /\ parser'.loads = parser.loads + 1
          /\ last'.outcome = "ok" => last'.chunk \notin DOMAIN heap]_vars

\* without a cache, chunk k was returned twice: the caller holds two objects of it
NoCacheTwice ==
    /\ parser.m_chunkCacheSize = 0
    /\ last.op = "GetChunk" /\ last.outcome = "ok"
    /\ \E o \in held : o # last.chunk /\ heap[o].m_id = last.chunkId

\* C6: a GetChunk(k) that fails while decoding leaves the cache as it was: nothing
\* inserted, nothing evicted, no chunk returned.
FailureLeavesCache ==
    [][(last'.op = "GetChunk" /\ last'.outcome \notin {"ok", AssertMessage}) =>
          /\ cache' = cache
          /\ heap' = heap
          /\ held' = held
          /\ last'.chunk = 0]_vars

\* a decode has failed with the cache full
FailedWhenFull ==
    /\ GetChunkFailed
    /\ MustEvict(cache, parser.m_chunkCacheSize)

\* C7: a chunk object is destroyed only when the cache does not hold it and every
\* handle GetSequence emitted for it has been dropped; a chunk with a handle
\* outstanding is not destroyed by its eviction.
ChunkOutlivesHandles ==
    \A o \in DOMAIN heap :
        /\ heap[o].freed => (o \notin CachedObjects /\ o \notin held /\ heap[o].handles = 0)
        /\ heap[o].handles > 0 => heap[o].m_sequenceMap # EmptyMap

\* an evicted chunk the caller has let go of, kept by a handle alone
EvictedWithHandle ==
    \E o \in DOMAIN heap :
        /\ parser.m_chunkCacheSize > 0
        /\ o \notin CachedObjects /\ o \notin held
        /\ heap[o].handles > 0
        /\ ~heap[o].freed

(***************************************************************************)
(* Properties of the parse level (specification ParseSpec).                *)
(***************************************************************************)
\* LoadSequence has returned the sequence
Returned == parser.pc = "done" /\ ~Throws(parser)
DenseStreams == {j \in DOMAIN parser.sequence : parser.m_streamInfos[j].m_type = "dense"}
SparseStreams == {j \in DOMAIN parser.sequence : parser.m_streamInfos[j].m_type = "sparse"}
Dimension(j) == parser.m_streamInfos[j].m_sampleDimension

RECURSIVE Sum(_)
Sum(v) == IF v = <<>> THEN 0 ELSE Head(v) + Sum(Tail(v))

SparseBufferConsistent ==
    \A j \in SparseStreams :
        /\ Len(parser.sequence[j].m_buffer) = Len(parser.sequence[j].m_indices)
        /\ Len(parser.sequence[j].m_buffer) = Sum(parser.sequence[j].m_nnzCounts)
        /\ Len(parser.sequence[j].m_buffer) = parser.sequence[j].m_totalNnzCount
        /\ Len(parser.sequence[j].m_nnzCounts) = parser.sequence[j].m_numberOfSamples

\* TryReadSample has refused a sparse sample in the middle of a pair: the index was
\* read and was in range, no value followed, and the pairs read before are taken back
SparseSampleRefusedInPair ==
    /\ parser.pc = "row" /\ ~Throws(parser)
    /\ parser.id \in SparseStreams
    /\ parser.found /\ ~SparseIndexRefused(parser.value, Dimension(parser.id))
    /\ parser.state = "Init"
    /\ parser.m_numAllowedErrors < parser.maxAllowedErrors
    /\ parser.sequence[parser.id].m_numberOfSamples = 0

\* C10: every index stored in a sparse stream buffer is less than the sample
\* dimension of the stream.
SparseIndicesBelowDimension ==
    \A j \in SparseStreams :
        \A n \in DOMAIN parser.sequence[j].m_indices :
            parser.sequence[j].m_indices[n] < Dimension(j)

\* LoadSequence was called for the sequence of chunk last.chunkId and its locals
\* are still there: it runs, has returned, or has thrown and is not yet unwound
Called == last.op = "LoadSequence" /\ (parser.pc # "idle" \/ Throws(parser))

\* the file offset one past the last byte of the sequence being decoded
SequenceEnd == parser.sequenceDsc.m_fileOffsetBytes + parser.sequenceDsc.m_byteSize

\* C11: while a sequence is decoded the bytes passed through m_pos never exceed
\* the descriptor's m_byteSize: bytesToRead never goes below zero, it falls by one
\* with every step of m_pos (passed + bytesToRead = m_byteSize), and m_pos is the
\* start of the sequence plus the bytes passed, so a byte read while bytesToRead > 0
\* is a byte of the sequence.
ReadsWithinSequence ==
    Called =>
        /\ parser.bytesToRead >= 0
        /\ parser.consumed <= parser.sequenceDsc.m_byteSize
        /\ parser.consumed + parser.bytesToRead = parser.sequenceDsc.m_byteSize
        /\ GetFileOffset(parser) = parser.sequenceDsc.m_fileOffsetBytes + parser.consumed

\* TryReadRow has stopped at the declared end of the sequence in the middle of a
\* row, with bytes of the next sequence behind it in the file
StoppedAtSequenceEnd ==
    /\ Called
    /\ parser.pc = "rowret" /\ ~parser.ret
    /\ parser.bytesToRead = 0
    /\ parser.consumed = parser.sequenceDsc.m_byteSize
    /\ parser.file[SequenceEnd] # ROW_DELIMITER
    /\ SequenceEnd < Len(parser.file)

\* the streams of the sequence being decoded that have no sample
StreamsWithoutSamples(p) == {j \in DOMAIN p.sequence : p.sequence[j].m_numberOfSamples = 0}

\* C12: when LoadSequence has left its loop over the rows and a stream has no
\* sample, it throws "Malformed input file" without a look at the error budget,
\* whatever is left of it; a sequence returned has no stream without samples.
EmptyStreamIsFatal ==
    [][/\ (parser.pc = "post" /\ ~Throws(parser) /\ StreamsWithoutSamples(parser) # {})
            => /\ parser'.dead = MalformedMessage
               /\ parser'.pc # "done"
               /\ parser'.m_numAllowedErrors = parser.m_numAllowedErrors
               /\ parser'.incCalls = parser.incCalls
       /\ parser'.pc = "done" => StreamsWithoutSamples(parser') = {}
      ]_vars

\* LoadSequence has thrown "Malformed input file" with error budget left
MalformedWithBudgetLeft ==
    /\ Called
    /\ parser.dead = MalformedMessage
    /\ StreamsWithoutSamples(parser) # {}
    /\ parser.m_numAllowedErrors > 0

\* the descriptor LoadSequence was last called with, and the bytes of its sequence
CalledDsc == parser.index[last.chunkId + 1].m_sequences[1]
CalledText ==
    SubSeq(parser.file, CalledDsc.m_fileOffsetBytes + 1,
           CalledDsc.m_fileOffsetBytes + CalledDsc.m_byteSize)

RECURSIVE DigitsValue(_)
\* the number a run of decimal digits denotes
DigitsValue(digits) ==
    IF digits = <<>> THEN 0
    ELSE 10 * DigitsValue(SubSeq(digits, 1, Len(digits) - 1)) + (digits[Len(digits)] - ChZero)

\* the length of the run of digits a text begins with
LeadingDigits(text) ==
    CHOOSE n \in 0..Len(text) :
        /\ \A k \in 1..n : isdigit(text[k])
        /\ n < Len(text) => ~isdigit(text[n + 1])

\* the text begins with the unsigned integer id: some digits of that value
\* (small enough not to overflow), and a delimiter behind them
BeginsWithId(text, id) ==
    LET n == LeadingDigits(text) IN
    /\ n > 0 /\ n < Len(text)
    /\ isDelimiter(text[n + 1])
    /\ DigitsValue(SubSeq(text, 1, n)) = id

\* LoadSequence has failed for the sequence id, now or before the unwinding
SequenceIdFailed == parser.dead = SequenceIdMessage \/ last.outcome = SequenceIdMessage

\* C13: when the index reports sequence ids, LoadSequence fails with "Did not
\* find the expected sequence" unless the sequence begins with an unsigned
\* integer equal to the descriptor's m_id, and then no row and no sample of it
\* is read and no buffer is made.
SequenceIdVerified ==
    (last.op = "LoadSequence" /\ ~parser.m_skipSequenceIds) =>
        IF BeginsWithId(CalledText, CalledDsc.m_id)
        THEN ~SequenceIdFailed
        ELSE /\ SequenceIdFailed
             /\ parser.pc = "idle"
             /\ parser.sampleCalls = 0
             /\ parser.numRowsRead = 0
             /\ parser.sequence = <<>>

\* LoadSequence has read an id that is not the descriptor's, and has thrown
SequenceIdMismatch ==
    /\ last.op = "LoadSequence" /\ ~parser.m_skipSequenceIds
    /\ parser.dead = SequenceIdMessage
    /\ parser.found
    /\ ~U64EqualsInt(parser.value, CalledDsc.m_id)

\* the streams of the sequence being decoded with more samples than the
\* descriptor has rows
StreamsWithMoreSamples(p) ==
    {j \in DOMAIN p.sequence : p.sequence[j].m_numberOfSamples > p.sequenceDsc.m_numberOfSamples}

\* the parser reads the file of the edge cases without sequence ids
EdgePlain == parser.file = FileOf(EdgeFilePlain) /\ parser.m_streamInfos = EdgeStreams

MissingTrailingNewline == CalledText[Len(CalledText)] # ROW_DELIMITER

\* C15: with max_allowed_errors = 0, a sequence whose last row has no row
\* delimiter within the sequence's m_byteSize is never returned, and its decode
\* fails with no other message than the budget-exhaustion one; when TryReadRow
\* runs out of input it returns false and the next step throws.
MissingNewlineIsFatal ==
    [][/\ (/\ last'.op = "LoadSequence" /\ parser'.maxAllowedErrors = 0
           /\ (parser'.m_skipSequenceIds \/ BeginsWithId(CalledText', CalledDsc'.m_id))
           /\ MissingTrailingNewline')
            => /\ parser'.pc # "done"
               /\ parser'.dead \in {"none", MaxErrorsMessage}
               /\ last'.outcome \in {"none", MaxErrorsMessage}
       /\ (/\ Called /\ parser.maxAllowedErrors = 0 /\ ~Throws(parser)
           /\ MissingTrailingNewline
           /\ parser.pc = "rowret" /\ parser.bytesToRead = 0)
            => ~parser.ret /\ parser'.dead = MaxErrorsMessage
      ]_vars

\* the row |x 1 without its delimiter was read to the end of the sequence's bytes
\* and the load has failed for the budget of max_allowed_errors = 0
MissingNewlineFailed ==
    /\ EdgePlain /\ Called /\ last.chunkId = 1
    /\ MissingTrailingNewline
    /\ parser.maxAllowedErrors = 0
    /\ parser.bytesToRead = 0
    /\ parser.dead = MaxErrorsMessage

\* C16, as the claim states it: loading |x 1 (one dense stream x of dimension 1,
\* no row delimiter, m_byteSize ending at the digit) with max_allowed_errors = 1
\* does not fail, and the sequence it returns holds the one sample [1].
MissingNewlineTolerated ==
    (/\ EdgePlain /\ last.op = "LoadSequence" /\ last.chunkId = 1
     /\ parser.maxAllowedErrors = 1 /\ parser.loads = 1)
        => /\ ~Throws(parser)
           /\ last.outcome = "none"
           /\ Returned =>
                 /\ parser.sequence[1].m_numberOfSamples = 1
                 /\ parser.sequence[1].m_buffer = <<Rational(1, 1)>>

\* the parser reads the file of the edge cases with sequence ids
EdgeIds == parser.file = FileOf(EdgeFileIds) /\ parser.m_streamInfos = EdgeStreams

\* the last byte passed by m_pos in the sequence being decoded
LastBytePassed == parser.file[parser.sequenceDsc.m_fileOffsetBytes + parser.consumed]

\* C17: TryReadRow returns true only from a row delimiter and only if a sample
\* was read in the row, so a row without a sample read (a blank line, a row of
\* escaped or refused samples only) returns false; LoadSequence then calls
\* IncrementNumberOfErrorsOrDie exactly once for the row: with no budget left it
\* throws the budget-exhaustion message, else the budget is one less, the row is
\* not counted and the decode goes on.  A row that returned true is counted and
\* costs nothing.  The sequences with a blank or an escaped row among their rows
\* are returned, at the cost of that one error, with the samples of their other
\* rows.
RowWithoutSampleCharged ==
    [][/\ (Called /\ parser.pc = "rowret" /\ ~Throws(parser))
            => /\ parser.ret <=> (parser.numSampleRead > 0 /\ parser.consumed > 0
                                    /\ LastBytePassed = ROW_DELIMITER)
               /\ ~parser.ret =>
                     /\ parser'.incCalls = parser.incCalls + 1
                     /\ parser'.numRowsRead = parser.numRowsRead
                     /\ IF parser.m_numAllowedErrors = 0
                        THEN parser'.dead = MaxErrorsMessage
                        ELSE /\ ~Throws(parser')
                             /\ parser'.m_numAllowedErrors = parser.m_numAllowedErrors - 1
                             /\ parser'.pc \in {"row", "rowret", "post"}
                             /\ parser'.sequence = parser.sequence
               /\ parser.ret =>
                     /\ parser'.incCalls = parser.incCalls
                     /\ parser'.numRowsRead = parser.numRowsRead + 1
       /\ (/\ EdgeIds /\ last'.op = "LoadSequence" /\ last'.chunkId \in {0, 1}
           /\ parser'.loads = 1 /\ parser'.pc = "done")
            => /\ parser'.incCalls = 1
               /\ parser'.numRowsRead = parser'.sequenceDsc.m_numberOfSamples - 1
               /\ parser'.sequence[1].m_numberOfSamples = parser'.numRowsRead
      ]_vars

\* the sequence with a blank line between two rows is returned: the blank line
\* was charged one error and skipped, the rows around it were read
BlankLineSkipped ==
    /\ EdgeIds /\ Called /\ last.chunkId = 0
    /\ Returned
    /\ parser.numRowsRead = 2
    /\ parser.sequence[1].m_buffer = <<Rational(1, 1), Rational(2, 1)>>
    /\ parser.m_numAllowedErrors = parser.maxAllowedErrors - 1

\* the parser reads the file of the short dense samples
ShortDense == parser.file = FileOf(ShortFile) /\ parser.m_streamInfos = ShortStreams

\* the values of a dense buffer from position n + 1 on
BufferFrom(v, n) == SubSeq(v, n + 1, Len(v))

\* C18: whenever TryReadSample accepts a dense sample, the stream's buffer keeps
\* what it held and gains exactly sample dimension values, the stream's sample
\* count rises by one and nothing is charged to the error budget; the values
\* gained are those of the text followed by zeros: |x 1 2 with dimension 4 gives
\* [1, 2, 0, 0], and |x with dimension 4 gives [0, 0, 0, 0].
ShortDenseSamplePadded ==
    [][/\ \A j \in DenseStreams :
            (/\ Called /\ parser.pc = "row" /\ j \in DOMAIN parser'.sequence
             /\ parser'.sequence[j].m_numberOfSamples = parser.sequence[j].m_numberOfSamples + 1)
                => /\ Len(parser'.sequence[j].m_buffer)
                        = Len(parser.sequence[j].m_buffer) + Dimension(j)
                   /\ SubSeq(parser'.sequence[j].m_buffer, 1, Len(parser.sequence[j].m_buffer))
                        = parser.sequence[j].m_buffer
                   /\ parser'.m_numAllowedErrors = parser.m_numAllowedErrors
                   /\ parser'.incCalls = parser.incCalls
                   /\ ~Throws(parser')
       /\ (ShortDense /\ last'.op = "LoadSequence" /\ parser'.pc \in {"row", "rowret", "post", "done"}
           /\ parser'.sequence[1].m_numberOfSamples >= 1)
            => SubSeq(parser'.sequence[1].m_buffer, 1, 4)
                  = IF last'.chunkId = 0
                    THEN <<Rational(1, 1), Rational(2, 1), RealZero, RealZero>>
                    ELSE <<Rational(1, 1), Rational(2, 1), Rational(3, 1), Rational(4, 1)>>
       /\ (ShortDense /\ last'.op = "LoadSequence" /\ last'.chunkId = 1
           /\ parser'.sequence # <<>> /\ parser'.sequence[1].m_numberOfSamples = 2)
            => BufferFrom(parser'.sequence[1].m_buffer, 4)
                  = <<RealZero, RealZero, RealZero, RealZero>>
      ]_vars

\* the sample |x 1 2 of dimension 4 is accepted as [1, 2, 0, 0] with nothing charged
ShortDenseSampleAccepted ==
    /\ ShortDense /\ Called /\ last.chunkId = 0
    /\ parser.pc = "row" /\ ~Throws(parser)
    /\ parser.sequence[1].m_numberOfSamples = 1
    /\ parser.sequence[1].m_buffer = <<Rational(1, 1), Rational(2, 1), RealZero, RealZero>>
    /\ parser.incCalls = 0
    /\ parser.m_numAllowedErrors = parser.maxAllowedErrors

\* the k-th byte of the sequence being decoded
ByteOfSequence(p, k) == p.file[p.sequenceDsc.m_fileOffsetBytes + k]

\* TryReadRow is about to read a sample that begins with the name prefix and the
\* escape symbol
AtEscapeSequence ==
    /\ Called /\ parser.pc = "row" /\ ~Throws(parser)
    /\ parser.bytesToRead >= 2
    /\ ByteOfSequence(parser, parser.consumed + 1) = NAME_PREFIX
    /\ ByteOfSequence(parser, parser.consumed + 2) = ESCAPE_SYMBOL

\* C19: a sample that begins |# is no sample and no error: the iteration of
\* TryReadRow that meets it leaves the error budget, the count of samples read in
\* the row and every stream buffer as they were, passes the two bytes and
\* everything behind them that is neither a name prefix nor a row delimiter, and
\* stops at the next name prefix or row delimiter (or at the end of the
\* sequence's bytes); the row goes on, and |#a|x 1 is decoded to the sample [1]
\* of x with nothing charged.
EscapeSequenceSkipped ==
    [][/\ AtEscapeSequence
            => /\ ~Throws(parser') /\ parser'.pc = "row"
               /\ parser'.incCalls = parser.incCalls
               /\ parser'.m_numAllowedErrors = parser.m_numAllowedErrors
               /\ parser'.sequence = parser.sequence
               /\ parser'.numSampleRead = parser.numSampleRead
               /\ parser'.consumed >= parser.consumed + 2
               /\ \A k \in (parser.consumed + 3)..parser'.consumed :
                      ByteOfSequence(parser, k) \notin {NAME_PREFIX, ROW_DELIMITER}
               /\ \/ parser'.bytesToRead = 0
                  \/ ByteOfSequence(parser, parser'.consumed + 1) \in {NAME_PREFIX, ROW_DELIMITER}
       /\ (/\ EdgePlain /\ last'.op = "LoadSequence" /\ last'.chunkId = 3 /\ parser'.loads = 1)
            => /\ ~Throws(parser')
               /\ parser'.incCalls = 0
               /\ parser'.pc = "done" =>
                     /\ parser'.sequence[1].m_numberOfSamples = 1
                     /\ parser'.sequence[1].m_buffer = <<Rational(1, 1)>>
      ]_vars

\* the row |#a|x 1 has been decoded: the escape sequence was passed, the sample
\* behind it was read, and the budget is what it was
SampleReadAfterEscape ==
    /\ EdgePlain /\ Called /\ last.chunkId = 3
    /\ Returned
    /\ parser.sequence[1].m_buffer = <<Rational(1, 1)>>
    /\ parser.sampleCalls = 2
    /\ parser.incCalls = 0

\* the parser reads the file of the sparse sample with an escape sequence
SparseEscape == parser.file = FileOf(SparseFile) /\ parser.m_streamInfos = SparseStreams10

\* the one sample of scenario S2: values [2.5], indices [7], nnz counts [1]
IsSampleS2(buffer) ==
    /\ buffer.m_numberOfSamples = 1
    /\ buffer.m_buffer = <<Rational(5, 2)>>
    /\ buffer.m_indices = <<7>>
    /\ buffer.m_nnzCounts = <<1>>
    /\ buffer.m_totalNnzCount = 1

\* C20, as the claim states it: the decode of the row |x:1 7:2.5 |#junk with one
\* sparse stream x of dimension 10 does not fail and yields exactly one sample of
\* x, with values [2.5], indices [7] and nnz counts [1].
SparseScenarioAsStated ==
    (SparseEscape /\ last.op = "LoadSequence" /\ last.chunkId = 0 /\ parser.loads = 1)
        => /\ ~Throws(parser)
           /\ last.outcome = "none"
           /\ Returned => IsSampleS2(parser.sequence[1])

\* C20, amended: it is the row |x 7:2.5 |#junk, the alias followed by a value
\* delimiter, that is decoded without an error to exactly one sample of x with
\* values [2.5], indices [7] and nnz counts [1], the escaped sample being
\* ignored; in the row |x:1 7:2.5 |#junk the name cannot be read (x: is longer
\* than the longest alias), x gets no sample, and the sequence is never returned.
SparseScenarioWithDelimiter ==
    /\ (SparseEscape /\ last.op = "LoadSequence" /\ last.chunkId = 1 /\ parser.loads = 1)
        => /\ ~Throws(parser)
           /\ last.outcome = "none"
           /\ parser.incCalls = 0
           /\ Returned => IsSampleS2(parser.sequence[1])
    /\ (SparseEscape /\ Called /\ last.chunkId = 0)
        => /\ parser.pc # "done"
           /\ \A j \in DOMAIN parser.sequence : parser.sequence[j] = EmptyStreamBuffer
           /\ parser.sampleCalls >= 1 => parser.incCalls >= 1

\* the row |x 7:2.5 |#junk has been decoded: both samples were met, one was read
SparseSampleDecoded ==
    /\ SparseEscape /\ Called /\ last.chunkId = 1
    /\ Returned
    /\ parser.sampleCalls = 2
    /\ IsSampleS2(parser.sequence[1])

\* the parser reads the file of the well-formed rows
WellFormed == parser.file = FileOf(WellFormedFile) /\ parser.m_streamInfos = WellFormedStreams

\* the values the rows of a sequence of WellFormedFile hold for stream j, in file
\* order
WellFormedValues(chunkId, j) ==
    IF chunkId = 0
    THEN IF j = 1
         THEN <<Rational(1, 1), Rational(2, 1), Rational(3, 1),
                Rational(4, 1), Rational(5, 1), Rational(6, 1)>>
         ELSE <<Rational(7, 1), Rational(8, 1)>>
    ELSE IF j = 1
         THEN <<Rational(-3, 2), Rational(20, 1), Rational(3, 1)>>
         ELSE <<Rational(1, 4)>>

\* the number of bytes of the sequence up to and with the row delimiter of a row
WellFormedRowEnd(chunkId, row) ==
    IF chunkId = 0 THEN (IF row = 1 THEN 15 ELSE 32) ELSE 25

\* C21: a row with one well-formed dense sample of exactly sample dimension
\* values for every declared stream, in either stream order, the samples
\* separated by spaces, tabs or a carriage return, and ended by a row delimiter
\* within the sequence's bytes: TryReadRow returns true with m_pos just behind
\* the row delimiter, every stream has one more sample and holds exactly the
\* values of its samples in file order, and no error is charged.
WellFormedRowsDecodeExactly ==
    (WellFormed /\ Called) =>
        /\ ~Throws(parser)
        /\ parser.incCalls = 0
        /\ parser.m_numAllowedErrors = parser.maxAllowedErrors
        /\ parser.pc = "rowret" =>
              /\ parser.ret
              /\ parser.numSampleRead = Len(parser.m_streamInfos)
              /\ parser.consumed = WellFormedRowEnd(last.chunkId, parser.i + 1)
              /\ LastBytePassed = ROW_DELIMITER
              /\ GetFileOffset(parser) = parser.sequenceDsc.m_fileOffsetBytes + parser.consumed
              /\ \A j \in DOMAIN parser.sequence :
                    /\ parser.sequence[j].m_numberOfSamples = parser.i + 1
                    /\ parser.sequence[j].m_buffer
                          = SubSeq(WellFormedValues(last.chunkId, j), 1, (parser.i + 1) * Dimension(j))
        /\ parser.pc = "done" =>
              /\ parser.numRowsRead = parser.sequenceDsc.m_numberOfSamples
              /\ \A j \in DOMAIN parser.sequence :
                    parser.sequence[j].m_buffer = WellFormedValues(last.chunkId, j)

\* TryReadRow has returned from the second row of a sequence, in which z comes
\* before x and a tab and a carriage return stand between the samples
SecondRowDecoded ==
    /\ WellFormed /\ Called /\ last.chunkId = 0
    /\ parser.pc = "rowret" /\ parser.ret
    /\ parser.i = 1
    /\ parser.sequence[1].m_numberOfSamples = 2
    /\ parser.sequence[2].m_numberOfSamples = 2

(***************************************************************************)
(* Properties of the retry level (specification RetrySpec).                *)
(***************************************************************************)
ParseFailures == {MaxErrorsMessage, MalformedMessage, SequenceIdMessage}

LoadedChunkIds == {heap[o].m_id : o \in DOMAIN heap}

\* C23: with a cache of capacity C >= 1, once C + 1 distinct chunk ids have been
\* loaded through GetChunk, with any calls of GetSequence in between, at least one
\* of the chunks loaded is no longer in the cache
EvictionProgress ==
    (parser.m_chunkCacheSize >= 1
        /\ Cardinality(LoadedChunkIds) >= parser.m_chunkCacheSize + 1) =>
       \E o \in DOMAIN heap : o \notin CachedObjects

\* the ids of the sequences the index puts in chunk k
SequenceIdsOf(k) ==
    {parser.index[k + 1].m_sequences[n].m_id : n \in DOMAIN parser.index[k + 1].m_sequences}

\* C24: with the cache enabled, the chunk a GetChunk(k) returns is at the return
\* the chunk stored in the cache under k and carries m_id = k; a chunk in the cache
\* has been loaded completely; and a chunk object that has left the cache is never
\* put back into it
ChunkMovesForward ==
    [][/\ (parser.m_chunkCacheSize >= 1 /\ last'.op = "GetChunk" /\ last'.outcome = "ok") =>
             /\ last'.chunkId \in DOMAIN cache'
             /\ cache'[last'.chunkId] = last'.chunk
             /\ heap'[last'.chunk].m_id = last'.chunkId
       /\ \A k \in DOMAIN cache' :
             /\ cache'[k] \in DOMAIN heap'
             /\ ~heap'[cache'[k]].freed
             /\ DOMAIN heap'[cache'[k]].m_sequenceMap = SequenceIdsOf(k)
       /\ \A k \in DOMAIN cache' \ DOMAIN cache : cache'[k] \notin DOMAIN heap
       /\ \A o \in DOMAIN heap : o \notin CachedObjects => o \notin {cache'[k] : k \in DOMAIN cache'}]_vars

\* a chunk was evicted, requested again and decoded into a new object, which is
\* the one in the cache and the one returned
EvictedChunkDecodedAnew ==
    /\ last.op = "GetChunk" /\ last.how = "miss" /\ last.outcome = "ok"
    /\ last.chunkId \in DOMAIN cache
    /\ cache[last.chunkId] = last.chunk
    /\ \E o \in DOMAIN heap :
          /\ o # last.chunk
          /\ heap[o].m_id = last.chunkId
          /\ o \notin CachedObjects

(***************************************************************************)
(* Properties of the serialization (specification DictionarySpec).         *)
(***************************************************************************)
RECURSIVE HasNaN(_)
\* a NaN is among the floats and doubles of the value
HasNaN(us) ==
    CASE us.m_valueType = "Float" -> us.m_data.m_float.isnan
      [] us.m_valueType = "Double" -> us.m_data.m_double.isnan
      [] us.m_valueType = "Vector" ->
            \E i \in 1..Len(us.m_data.m_ptr.vector) : HasNaN(us.m_data.m_ptr.vector[i])
      [] us.m_valueType = "Dictionary" ->
            \E key \in DOMAIN us.m_data.m_ptr.Dictionary : HasNaN(us.m_data.m_ptr.Dictionary[key])
      [] us.m_valueType = "NDArrayView" ->
            \E i \in 1..Len(us.m_data.m_ptr.NDArrayView.buffer) :
               us.m_data.m_ptr.NDArrayView.buffer[i].isnan
      [] OTHER -> FALSE

Compared == last.op = "operator!="
OriginalHasNaN == \E key \in DOMAIN heap.originalDict : HasNaN(heap.originalDict[key])

\* C25 as stated: every dictionary written to a stream and read into an empty
\* dictionary is equal to the one read under Dictionary::operator==
SerializationRoundTrips == Compared => last.outcome = "ok"

\* C25: a dictionary that holds no NaN, written to a stream and read into an empty
\* dictionary, is equal to the one read under Dictionary::operator==: the keys are
\* the same and every value has the same type and equal content; the stream is read
\* to its end.  A dictionary that holds a NaN is read back with the same keys, types
\* and contents and compares unequal.
SerializationRoundTripsWithoutNaN ==
    /\ last.op \in {"operator>>", "operator!="} =>
          /\ heap.deserializedDict = heap.originalDict
          /\ last.op = "operator>>" => last.outcome = "end of file"
    /\ Compared => (last.outcome = "ok" <=> ~OriginalHasNaN)

\* a dictionary with a vector of two values and a leaf has been read back and
\* found equal
NestedDictionaryReadBack ==
    /\ Compared
    /\ last.outcome = "ok"
    /\ DOMAIN heap.deserializedDict = {"key0", "key1"}
    /\ heap.deserializedDict["key0"].m_valueType = "Vector"
    /\ Len(heap.deserializedDict["key0"].m_data.m_ptr.vector) = 2
    /\ heap.deserializedDict["key0"].m_data.m_ptr.vector[1].m_valueType = "NDArrayView"
    /\ heap.deserializedDict["key0"].m_data.m_ptr.vector[2].m_valueType = "String"

(***************************************************************************)
(* Further properties of LoadSequence (specification ParseSpec).           *)
(***************************************************************************)
Overfull == parser.file = FileOf(OverfullFile) /\ parser.m_streamInfos = WellFormedStreams

\* TryReadRow has returned from a row in which it read more samples than there are
\* streams
OverfullRowRead ==
    /\ Called
    /\ parser.pc = "rowret"
    /\ parser.numSampleRead > Len(parser.m_streamInfos)

\* C26: a row in which more samples were read than there are streams lowers the
\* error budget, and is fatal when the budget is 0: once LoadSequence has counted
\* such a row, an error has been charged
OverfullRowCharged ==
    (Overfull /\ Called /\ ~Throws(parser) /\ parser.numRowsRead >= 1) =>
        parser.m_numAllowedErrors < parser.maxAllowedErrors

(***************************************************************************)
(* Properties of the scanners (specification ScanSpec).                    *)
(***************************************************************************)
RECURSIVE DecimalValue(_)
\* the decimal value of a string of digits, in limbs, the first as large as it takes
DecimalValue(digits) ==
    IF digits = <<>>
    THEN U64Zero
    ELSE Let(DecimalValue(SubSeq(digits, 1, Len(digits) - 1)), LAMBDA value :
             LET l3 == value[3] * 10 + (digits[Len(digits)] - ChZero)
                 l2 == value[2] * 10 + (l3 \div Limb)
             IN  <<value[1] * 10 + (l2 \div Limb), l2 % Limb, l3 % Limb>>)

\* the bytes the scanner has passed
BytesConsumed == SubSeq(parser.file, 1, parser.consumed)

Uint64Scanned == last.op = "TryReadUint64" /\ parser.pc = "scanned"

\* C27: TryReadUint64 succeeds if and only if it consumed at least one digit, the
\* byte after the digits is a delimiter and the decimal value of the digits is
\* below 2^64, and the value it returns on success is the decimal value of the
\* digits consumed
Uint64NeverWraps ==
    Uint64Scanned =>
        /\ parser.ret <=>
              /\ parser.consumed >= 1
              /\ parser.consumed < Len(parser.file)
              /\ isDelimiter(parser.file[parser.consumed + 1])
              /\ U64Less(DecimalValue(BytesConsumed), TwoTo64)
        /\ parser.ret => parser.value = DecimalValue(BytesConsumed)

\* the steps of the scanner's state on a byte consumed
RealEdges ==
    {<<"Init", "Sign">>, <<"Init", "IntegralPart">>, <<"Sign", "IntegralPart">>,
     <<"IntegralPart", "IntegralPart">>, <<"IntegralPart", "Period">>,
     <<"IntegralPart", "TheLetterE">>, <<"Period", "FractionalPart">>,
     <<"FractionalPart", "FractionalPart">>, <<"FractionalPart", "TheLetterE">>,
     <<"TheLetterE", "ExponentSign">>, <<"TheLetterE", "Exponent">>,
     <<"ExponentSign", "Exponent">>, <<"Exponent", "Exponent">>}

\* the byte c extends a number read up to the state
Extends(state, c) ==
    CASE state = "Init" -> isdigit(c) \/ isSign(c)
      [] state = "IntegralPart" -> isdigit(c) \/ c = ChDot \/ isE(c)
      [] state = "FractionalPart" -> isdigit(c) \/ isE(c)
      [] state = "TheLetterE" -> isdigit(c) \/ isSign(c)
      [] OTHER -> isdigit(c)

RealScanned == last.op = "TryReadRealNumber" /\ parser.pc = "scanned"

\* what holds when TryReadRealNumber has returned
RealNumberReturned ==
    /\ parser.consumed < Len(parser.file) => ~Extends(parser.state, parser.file[parser.consumed + 1])
    /\ parser.ret <=>
          /\ parser.consumed < Len(parser.file)
          /\ parser.state \in {"IntegralPart", "Period", "FractionalPart", "Exponent"}
    /\ parser.ret =>
          /\ Cur(parser) = parser.file[parser.consumed + 1]
          /\ GetFileOffset(parser) = parser.consumed
    /\ parser.bytesToRead = Len(parser.file) - parser.consumed

\* C28: TryReadRealNumber walks the states Init, Sign, IntegralPart, Period,
\* FractionalPart, TheLetterE, ExponentSign, Exponent along the edges of the number
\* grammar, one byte consumed per step; on the first byte that cannot extend the
\* number in IntegralPart, Period, FractionalPart or Exponent it returns true with
\* m_pos on that byte and bytesToRead lowered by the bytes consumed; it returns
\* false on such a byte in Init, Sign, TheLetterE or ExponentSign, and when the
\* input ends
RealNumberScannerWalks ==
    [][last.op = "TryReadRealNumber" =>
          /\ parser'.consumed = parser.consumed + 1 =>
                /\ <<parser.state, parser'.state>> \in RealEdges
                /\ Extends(parser.state, parser.file[parser'.consumed])
          /\ parser'.consumed = parser.consumed => parser'.state = parser.state
          /\ parser'.consumed \in {parser.consumed, parser.consumed + 1}
          /\ parser'.pc = "scanned" => RealNumberReturned']_vars

\* 2e-2 and a space: the scanner has returned true in the state Exponent, on the
\* space, with the value 1/50
NegativeExponentRead ==
    /\ RealScanned
    /\ parser.file = <<50, 101, 45, 50, 32>>
    /\ parser.ret
    /\ parser.state = "Exponent"
    /\ parser.consumed = 4
    /\ parser.value = <<1, 50>>

(***************************************************************************)
(* Properties of the request count (specification CountSpec).              *)
(***************************************************************************)
\* C29 as stated: m_sequenceRequestCount starts at 0, is raised by one for every
\* sequence-data handle emitted, and is never lowered
RequestCountCountsHandles ==
    [][\A o \in DOMAIN heap' :
          IF o \in DOMAIN heap
          THEN /\ heap'[o].m_sequenceRequestCount >= heap[o].m_sequenceRequestCount
               /\ heap'[o].m_sequenceRequestCount - heap[o].m_sequenceRequestCount
                     = heap'[o].handles - heap[o].handles
          ELSE heap'[o].m_sequenceRequestCount = 0]_vars

\* C29: m_sequenceRequestCount starts at 0 when the chunk is made, is raised by one
\* by every call of GetSequence on the chunk, which emits one handle for every
\* stream, and is never lowered or reset by GetChunk, be it a hit on the chunk, a
\* miss or the eviction of the chunk
RequestCountCountsCalls ==
    [][\A o \in DOMAIN heap' :
          IF o \in DOMAIN heap
          THEN /\ heap'[o].m_sequenceRequestCount >= heap[o].m_sequenceRequestCount
               /\ (heap'[o].m_sequenceRequestCount - heap[o].m_sequenceRequestCount)
                     * Len(parser.m_streamInfos) = heap'[o].handles - heap[o].handles
               /\ heap'[o].m_sequenceRequestCount - heap[o].m_sequenceRequestCount
                     = IF last'.op = "GetChunk" \/ heap'[o].handles = heap[o].handles
                       THEN 0 ELSE 1
          ELSE heap'[o].m_sequenceRequestCount = 0]_vars

\* GetSequence was called twice on a chunk of two streams, which then was hit in the
\* cache: four handles, a count of two
CountedChunkHit ==
    /\ last.op = "GetChunk" /\ last.how = "hit"
    /\ Len(parser.m_streamInfos) = 2
    /\ heap[last.chunk].m_sequenceRequestCount = 2
    /\ heap[last.chunk].handles = 4

(***************************************************************************)
(* Properties of the byte-buffered reader (specification ReaderSpec).      *)
(***************************************************************************)
\* the bytes between m_bufferStart and m_bufferEnd are the bytes of the file from
\* m_fileOffsetStart on, and m_pos lies among them or at their end
WindowIsOfFile ==
    /\ parser.m_bufferStart <= parser.m_pos /\ parser.m_pos <= parser.m_bufferEnd
    /\ \A i \in 1..(parser.m_bufferEnd - parser.m_bufferStart) :
          /\ parser.m_fileOffsetStart + i <= Len(parser.file)
          /\ parser.m_buffer[i] = parser.file[parser.m_fileOffsetStart + i]

\* C30: in every state after Initialize, whatever refills, seeks and positionings
\* there were, m_fileOffsetStart + (m_pos - m_bufferStart) is the offset in the file
\* of the byte m_pos refers to, and m_bufferEnd - m_bufferStart equals
\* m_fileOffsetEnd - m_fileOffsetStart
BufferOffsetCoupling ==
    /\ WindowIsOfFile
    /\ parser.m_bufferEnd - parser.m_bufferStart
          = parser.m_fileOffsetEnd - parser.m_fileOffsetStart

(***************************************************************************)
(* The eviction heuristic (specification Spec).                            *)
(***************************************************************************)
\* GetSequence was called on the chunk at least as often as it has sequences
Drained(chunk) ==
    chunk.m_sequenceRequestCount >= Cardinality(DOMAIN chunk.m_sequenceMap)

\* the chunk has sequences and GetSequence was never called on it
NeverRequested(chunk) ==
    chunk.m_sequenceRequestCount = 0 /\ Cardinality(DOMAIN chunk.m_sequenceMap) > 0

\* C31: when GetChunk misses with the cache full, a drained chunk in it and a chunk
\* with sequences never requested in it, a drained chunk leaves the cache and every
\* chunk never requested stays
DrainedChunkIsEvicted ==
    [][(/\ parser'.loads = parser.loads + 1
        /\ last'.outcome = "ok"
        /\ MustEvict(cache, parser.m_chunkCacheSize)
        /\ \E a \in DOMAIN cache : Drained(heap[cache[a]])
        /\ \E b \in DOMAIN cache : NeverRequested(heap[cache[b]]))
       => /\ \E a \in DOMAIN cache \ DOMAIN cache' : Drained(heap[cache[a]])
          /\ \A b \in DOMAIN cache :
                NeverRequested(heap[cache[b]]) => b \in DOMAIN cache' /\ cache'[b] = cache[b]]_vars

(***************************************************************************)
(* Further properties of the parse level (specification ParseSpec).        *)
(***************************************************************************)
\* the step is a call of TryReadSample that has returned false
SampleRejected ==
    /\ Called /\ parser.pc = "row" /\ ~Throws(parser) /\ ~Throws(parser')
    /\ parser'.sampleCalls = parser.sampleCalls + 1
    /\ parser'.numSampleRead = parser.numSampleRead

\* C32: a call of TryReadSample that returns false for a reason other than the
\* escape symbol lowers m_numAllowedErrors by exactly one
RejectedSampleChargesOne ==
    [][(SampleRejected /\ ~AtEscapeSequence)
          => parser'.m_numAllowedErrors = parser.m_numAllowedErrors - 1]_vars

(***************************************************************************)
(* Properties of the error budget over the calls of GetChunk               *)
(* (specification BudgetSpec).                                             *)
(***************************************************************************)
\* the anomalies charged so far: the calls of IncrementNumberOfErrorsOrDie that
\* returned
Charged(p) == p.incCalls - p.incThrows

\* the step is a GetChunk(k) that decoded chunk k and returned it
Decoded(k) ==
    /\ parser'.loads = parser.loads + 1
    /\ last'.chunkId = k /\ last'.outcome = "ok"

\* C33: m_numAllowedErrors is never raised or reset, a cache hit leaves it as it is,
\* every decode of the chunk |x 4|z charges its one anomaly again, also after a
\* retry or an eviction, a decode of a chunk without anomalies charges nothing, and
\* what is left is max_allowed_errors less the anomalies charged so far
BudgetIsCumulative ==
    [][/\ parser'.m_numAllowedErrors <= parser.m_numAllowedErrors
       /\ parser'.maxAllowedErrors = parser.maxAllowedErrors
       /\ parser'.m_numAllowedErrors = parser'.maxAllowedErrors - Charged(parser')
       /\ last'.how = "hit" => parser'.m_numAllowedErrors = parser.m_numAllowedErrors
       /\ Decoded(2) => parser'.m_numAllowedErrors = parser.m_numAllowedErrors - 1
       /\ (Decoded(0) \/ Decoded(1))
             => parser'.m_numAllowedErrors = parser.m_numAllowedErrors]_vars

\* the chunk |x 4|z was decoded, evicted and, after a seek that failed and a retry,
\* decoded again: a budget of two is used up
ChunkChargedTwice ==
    /\ parser.maxAllowedErrors = 2 /\ parser.m_numAllowedErrors = 0
    /\ parser.m_chunkCacheSize = 1
    /\ parser.seekThrows >= 1 /\ parser.attempts > parser.loads
    /\ last.chunkId = 2 /\ last.outcome = "ok"
    /\ Cardinality({o \in DOMAIN heap : heap[o].m_id = 2}) = 2

\* the parser reads the file of the parse level without sequence ids
ParsePlain == parser.file = FileOf(ParseFilePlain) /\ parser.m_streamInfos = ParseStreams

\* TryReadRow is about to read the second sample of the row of chunk k, which
\* begins at the seventh byte
AtSecondSampleOf(k) ==
    /\ ParsePlain /\ Called /\ last.chunkId = k
    /\ parser.pc = "row" /\ ~Throws(parser)
    /\ parser.consumed = 6 /\ parser.sampleCalls = 1

\* C34: no index stored in a sparse buffer is greater than the sample dimension of
\* the stream; the sample |y 3:1 of the stream y of dimension 3 is accepted and the
\* index 3 stored with the value 1, nothing charged; the sample |y 4:1 is refused:
\* nothing is stored for it and one error is charged, or thrown with no budget left
SparseIndexBound ==
    [][/\ \A j \in SparseStreams :
            \A n \in DOMAIN parser.sequence[j].m_indices :
                parser.sequence[j].m_indices[n] <= Dimension(j)
       /\ AtSecondSampleOf(3)
            => /\ ~Throws(parser')
               /\ parser'.sequence[2].m_indices = <<3>>
               /\ parser'.sequence[2].m_buffer = <<Rational(1, 1)>>
               /\ parser'.sequence[2].m_numberOfSamples = 1
               /\ parser'.sequence[2].m_nnzCounts = <<1>>
               /\ parser'.numSampleRead = parser.numSampleRead + 1
               /\ parser'.m_numAllowedErrors = parser.m_numAllowedErrors
       /\ AtSecondSampleOf(4)
            => /\ parser'.sequence[2].m_indices = <<>>
               /\ parser'.sequence[2].m_buffer = <<>>
               /\ parser'.sequence[2].m_numberOfSamples = 0
               /\ parser'.numSampleRead = parser.numSampleRead
               /\ parser'.incCalls = parser.incCalls + 1
               /\ IF parser.m_numAllowedErrors = 0
                  THEN parser'.dead = MaxErrorsMessage
                  ELSE /\ ~Throws(parser')
                       /\ parser'.m_numAllowedErrors = parser.m_numAllowedErrors - 1]_vars

\* the row |x 1 2|y 3:1 was decoded: the index 3 is in the buffer of a stream of
\* dimension 3 of the sequence returned
IndexAtDimensionStored ==
    /\ ParsePlain /\ Called /\ last.chunkId = 3
    /\ Returned
    /\ Dimension(2) = 3
    /\ parser.sequence[2].m_indices = <<3>>

\* the sample |y 4:1 was refused and the sample |y 1:1 behind it read
IndexPastDimensionRefused ==
    /\ ParsePlain /\ Called /\ last.chunkId = 4
    /\ Returned
    /\ parser.sequence[2].m_indices = <<1>>
    /\ parser.incCalls = 1

\* every dense buffer of the sequence being decoded holds as many values as its
\* sample count times the sample dimension
DenseBuffersWhole(p) ==
    \A j \in DOMAIN p.sequence :
        p.m_streamInfos[j].m_type = "dense"
            => Len(p.sequence[j].m_buffer)
                  = p.sequence[j].m_numberOfSamples * p.m_streamInfos[j].m_sampleDimension

\* TryReadRow is about to read the first sample of the row of chunk 6 of the parse
\* level, |x 1 2 3 for the stream x of dimension 2
AtOversizeSample ==
    /\ ParsePlain /\ Called /\ last.chunkId = 6
    /\ parser.pc = "row" /\ ~Throws(parser)
    /\ parser.consumed = 0 /\ parser.sampleCalls = 0

\* C35: after every call of TryReadSample that returns, true or false, every dense
\* buffer holds its sample count times the sample dimension values; a call that
\* returns false leaves every dense buffer and every sample count as they were; the
\* dense sample |x 1 2 3 of a stream of dimension 2 is refused
DenseBuffersStayWhole ==
    [][/\ ~Throws(parser') => DenseBuffersWhole(parser')
       /\ SampleRejected
            => \A j \in DenseStreams :
                  /\ parser'.sequence[j].m_buffer = parser.sequence[j].m_buffer
                  /\ parser'.sequence[j].m_numberOfSamples = parser.sequence[j].m_numberOfSamples
       /\ (AtOversizeSample /\ ~Throws(parser'))
            => /\ SampleRejected
               /\ parser'.m_numAllowedErrors = parser.m_numAllowedErrors - 1]_vars

\* the sample |x 1 2 3 was refused and its three values taken back; the sample
\* |x 1 2 behind it was read
OversizeSampleRolledBack ==
    /\ ParsePlain /\ Called /\ last.chunkId = 6
    /\ parser.pc = "row" /\ ~Throws(parser)
    /\ parser.sampleCalls = 2 /\ parser.numSampleRead = 1
    /\ parser.incCalls = 1
    /\ parser.sequence[1].m_buffer = <<Rational(1, 1), Rational(2, 1)>>
    /\ parser.sequence[1].m_numberOfSamples = 1

\* the parser reads the file of the malformed numbers
Malformed == parser.file = FileOf(MalformedFile) /\ parser.m_streamInfos = ParseStreams

\* the bytes of the sequence passed in the step, but for the first
PassedBehindFirst == {ByteOfSequence(parser, k) : k \in (parser.consumed + 2)..parser'.consumed}

\* C36: a call of TryReadSample that returns false is followed, in the same
\* iteration of TryReadRow, by a skip that stops at the next name prefix or row
\* delimiter or at the end of the bytes of the sequence: the row is not left, no
\* row delimiter and no name prefix but the sample's own is passed.  The samples
\* behind a refused one are read: |x 1 2a|y 0:1|x 3 4 gives y = (0:1) and
\* x = [3, 4], |y 1:a|y 2:1|x 1 2 gives y = (2:1) and x = [1, 2], and
\* _a|x 1 2|y 0:1 gives x = [1, 2] and y = (0:1)
RejectedSampleResynchronised ==
    [][/\ SampleRejected
            => /\ parser'.pc = "row"
               /\ parser'.consumed > parser.consumed
               /\ parser'.consumed <= parser.sequenceDsc.m_byteSize
               /\ parser'.bytesToRead = parser.sequenceDsc.m_byteSize - parser'.consumed
               /\ ByteOfSequence(parser, parser.consumed + 1) # ROW_DELIMITER
               /\ ROW_DELIMITER \notin PassedBehindFirst
               /\ NAME_PREFIX \notin PassedBehindFirst
               /\ \/ parser'.bytesToRead = 0
                  \/ ByteOfSequence(parser, parser'.consumed + 1) \in {NAME_PREFIX, ROW_DELIMITER}
       /\ (Malformed /\ Called /\ Returned')
            => /\ parser'.sampleCalls = 3
               /\ parser'.sequence[1].m_numberOfSamples = 1
               /\ parser'.sequence[2].m_numberOfSamples = 1
               /\ parser'.sequence[2].m_buffer = <<Rational(1, 1)>>
               /\ IF last.chunkId = 0
                  THEN /\ parser'.sequence[1].m_buffer = <<Rational(3, 1), Rational(4, 1)>>
                       /\ parser'.sequence[2].m_indices = <<0>>
                  ELSE /\ parser'.sequence[1].m_buffer = <<Rational(1, 1), Rational(2, 1)>>
                       /\ parser'.sequence[2].m_indices = IF last.chunkId = 1 THEN <<2>> ELSE <<0>>]_vars

\* the row |x 1 2a|y 0:1|x 3 4 was decoded: its first sample refused, the two
\* behind it read
SamplesReadBehindRefused ==
    /\ Malformed /\ Called /\ last.chunkId = 0
    /\ Returned
    /\ parser.sampleCalls = 3 /\ parser.loads = 1 /\ parser.incCalls = 1
    /\ parser.sequence[1].m_buffer = <<Rational(3, 1), Rational(4, 1)>>
    /\ parser.sequence[2].m_indices = <<0>>

(***************************************************************************)
(* Further properties of the scanners (specification ScanSpec).            *)
(***************************************************************************)
\* the states of TryReadRealNumber in which the bytes read are a number
NumberStates == {"IntegralPart", "Period", "FractionalPart", "Exponent"}

\* C37: when TryReadUint64 or TryReadRealNumber returns true, bytesToRead is at
\* least 1 and m_pos is on the byte that ended the number; when the bytes of the
\* sequence end with the last byte of a number (digits only for TryReadUint64, a
\* number state for TryReadRealNumber), the scanner returns false, having consumed
\* them all (up to 19 digits are below 2^64, so TryReadUint64 does not stop before)
ScannerNeedsByteBehind ==
    parser.pc = "scanned" =>
        /\ parser.ret =>
              /\ parser.bytesToRead >= 1
              /\ parser.consumed < Len(parser.file)
              /\ Cur(parser) = parser.file[parser.consumed + 1]
              /\ ~isdigit(Cur(parser))
        /\ parser.bytesToRead = 0 => ~parser.ret
        /\ (last.op = "TryReadUint64" /\ \A k \in DOMAIN parser.file : isdigit(parser.file[k]))
              => /\ ~parser.ret
                 /\ Len(parser.file) <= 19 => parser.consumed = Len(parser.file)
        /\ (last.op = "TryReadRealNumber" /\ parser.consumed = Len(parser.file))
              => ~parser.ret

\* 2.2 with nothing behind it: TryReadRealNumber has read the whole number, is in
\* the state FractionalPart and returns false
NumberAtEndOfBytesRefused ==
    /\ RealScanned
    /\ parser.file = <<50, 46, 50>>
    /\ parser.consumed = 3 /\ parser.bytesToRead = 0
    /\ parser.state \in NumberStates
    /\ ~parser.ret

\* the bytes of the sequence p decodes
SequenceText(p) ==
    SubSeq(p.file, p.sequenceDsc.m_fileOffsetBytes + 1,
           p.sequenceDsc.m_fileOffsetBytes + p.sequenceDsc.m_byteSize)

\* the length of the run of digits behind the first k bytes of a text
DigitRunBehind(text, k) == LeadingDigits(SubSeq(text, k + 1, Len(text)))

\* the step is LoadSequence's, from its call to its first row or its throw
LoadSequenceCalled ==
    parser.pc = "idle" /\ ~Throws(parser) /\ parser'.loads = parser.loads + 1

\* the step is the one that begins a row behind the first
LaterRowBegun ==
    parser.pc = "rowret" /\ ~Throws(parser) /\ parser'.pc = "row" /\ ~Throws(parser')

\* C38: after Initialize the skip flag is NOT HasSequenceIds of the indexer,
\* whatever skip_sequence_ids was configured to; LoadSequence verifies the id
\* (and throws "Did not find the expected sequence" unless the sequence
\* begins with it) if and only if the indexer reported sequence ids; and the
\* run of digits a row begins with is passed in both cases, without being
\* looked at when there are no sequence ids.
SkipFlagFollowsIndexer ==
    [][/\ parser.m_skipSequenceIds = ~parser.hasSequenceIds
       /\ parser'.m_skipSequenceIds = ~parser'.hasSequenceIds
       /\ LoadSequenceCalled =>
            LET text == SequenceText(parser')
                verified == parser.hasSequenceIds
                failed == parser'.dead = SequenceIdMessage
            IN  /\ failed = (verified /\ ~BeginsWithId(text, parser'.sequenceDsc.m_id))
                /\ ~failed => /\ ~Throws(parser')
                              /\ parser'.consumed = LeadingDigits(text)
       /\ LaterRowBegun =>
            parser'.consumed =
                parser.consumed + DigitRunBehind(SequenceText(parser), parser.consumed)]_vars

\* configured to skip the ids, the parser has verified the id of a sequence
\* of two rows the indexer reported with ids, and has passed the digits the
\* second row begins with
ConfiguredSkipOverridden ==
    /\ parser.skipConfigured /\ parser.hasSequenceIds
    /\ Returned
    /\ parser.sequenceDsc.m_numberOfSamples = 2
    /\ parser.numRowsRead = 2
    /\ BeginsWithId(SequenceText(parser), parser.sequenceDsc.m_id)

\* not configured to skip, the parser has decoded a sequence that begins with
\* digits that are not its id, the indexer having reported no ids
UnverifiedDigitsPassed ==
    /\ ~parser.skipConfigured /\ ~parser.hasSequenceIds
    /\ Returned
    /\ LeadingDigits(SequenceText(parser)) > 0
    /\ ~BeginsWithId(SequenceText(parser), parser.sequenceDsc.m_id)

\* the byte budget of the running LoadSequence: what is consumed and what is
\* left make the descriptor's m_byteSize, and the rows begun so far are fewer
\* than m_numberOfSamples
WithinBudget(p) ==
    /\ p.consumed >= 0 /\ p.bytesToRead >= 0
    /\ p.consumed + p.bytesToRead = p.sequenceDsc.m_byteSize
    /\ p.pc \in {"row", "rowret"} => p.i < p.sequenceDsc.m_numberOfSamples
    /\ p.i <= p.sequenceDsc.m_numberOfSamples
    /\ p.numRowsRead <= p.i + 1

\* one test of TryReadRow's loop: the loop is left (TryReadRow returns), an
\* exception is thrown, or at least one byte of the budget is consumed
RowIterationProgress ==
    (parser.pc = "row" /\ ~Throws(parser)) =>
        \/ parser'.pc = "rowret"
        \/ Throws(parser')
        \/ /\ parser'.pc = "row"
           /\ parser'.consumed > parser.consumed
           /\ parser'.i = parser.i

\* TryReadRow has returned: the for loop counts the row attempt, and begins
\* the next row only if the count is below m_numberOfSamples
RowAttemptCounted ==
    (parser.pc = "rowret" /\ ~Throws(parser)) =>
        \/ Throws(parser')
        \/ parser'.pc = "post" /\ parser'.consumed = parser.consumed
        \/ /\ parser'.pc = "row"
           /\ parser'.i = parser.i + 1
           /\ parser'.consumed >= parser.consumed

\* C39: decoding terminates.  Every test of TryReadRow's loop returns, throws
\* or consumes at least one byte of the sequence's m_byteSize bytes, a byte in
\* place of a name prefix included (the sample is rejected without consuming
\* it, the skip behind it consumes it); every return of TryReadRow counts one
\* of at most m_numberOfSamples row attempts; so a LoadSequence that was
\* called returns or throws.
DecodingTerminates ==
    /\ [](InLoadSequence /\ ~Throws(parser) => WithinBudget(parser))
    /\ [][RowIterationProgress /\ RowAttemptCounted]_vars
    /\ (InLoadSequence ~> ~InLoadSequence)

\* TryReadRow's loop, some bytes of the sequence consumed, is at a byte that
\* is no delimiter and no name prefix, with errors left to spend: the sample
\* is rejected without consuming it
AtByteInPlaceOfPrefix ==
    /\ parser.pc = "row" /\ ~Throws(parser)
    /\ parser.consumed > 0 /\ parser.bytesToRead > 0
    /\ parser.m_numAllowedErrors > 0
    /\ LET c == ByteOfSequence(parser, parser.consumed + 1) IN
       c \notin {NAME_PREFIX, COLUMN_DELIMITER, VALUE_DELIMITER, CARRIAGE_RETURN, ROW_DELIMITER}

\* the step is a GetChunk of a chunk that is in the cache
GetChunkOfCached ==
    /\ last'.op = "GetChunk"
    /\ last'.chunkId \in DOMAIN cache
    /\ Running

\* C40: a GetChunk that finds its chunk in the cache returns the cached object
\* and changes nothing else: the cache, every chunk's m_sequenceRequestCount
\* and sequences, the error budget, the buffer, its offsets and the position
\* of the file stay as they were, and no chunk is decoded.
CacheHitHasNoSideEffects ==
    [][GetChunkOfCached =>
        /\ last'.chunk = cache[last'.chunkId]
        /\ last'.outcome = "ok"
        /\ cache' = cache
        /\ DOMAIN heap' = DOMAIN heap
        /\ \A o \in DOMAIN heap :
              /\ heap'[o].m_sequenceRequestCount = heap[o].m_sequenceRequestCount
              /\ heap'[o].m_sequenceMap = heap[o].m_sequenceMap
              /\ heap'[o].freed = heap[o].freed
        /\ parser'.m_numAllowedErrors = parser.m_numAllowedErrors
        /\ parser'.m_buffer = parser.m_buffer
        /\ parser'.m_bufferStart = parser.m_bufferStart
        /\ parser'.m_bufferEnd = parser.m_bufferEnd
        /\ parser'.m_pos = parser.m_pos
        /\ parser'.m_fileOffsetStart = parser.m_fileOffsetStart
        /\ parser'.m_fileOffsetEnd = parser.m_fileOffsetEnd
        /\ parser'.filePos = parser.filePos
        /\ parser'.loads = parser.loads
        /\ parser' = parser]_vars

\* GetChunk has returned a cached chunk that was decoded with errors charged
\* and has sequences requested, another chunk having been decoded since
HitOnRequestedChunk ==
    /\ last.op = "GetChunk" /\ last.how = "hit"
    /\ heap[last.chunk].m_sequenceRequestCount > 0
    /\ parser.m_numAllowedErrors < parser.maxAllowedErrors
    /\ parser.loads >= 2

====
